---- MODULE Spec2Model ----
(***************************************************************************)
(* A model of vite-plugin-vitepress-auto-nav: the per-item configuration   *)
(* resolver, the sibling ordering, the itemsSetting key lookup, the build  *)
(* pass that turns a list of file paths into nav and sidebar, the parser   *)
(* of SUMMARY.md, the file watcher's handler and the throttle around it.   *)
(*                                                                         *)
(* JavaScript values.  A property that may be undefined is modelled as a   *)
(* set with at most one element: {} is undefined (or null: the code reads  *)
(* such properties with ??, which treats both alike) and {v} is the        *)
(* value v.                                                                *)
(***************************************************************************)
EXTENDS Integers, Sequences, FiniteSets, TLC

VARIABLES
  pc,            \* which step of the modelled operation comes next
  rKey,          \* resolver: the attribute key asked for
  rFrontmatter,  \* resolver: the document metadata (frontmatter) of the item
  rOptions,      \* resolver: the item's options (itemsSetting-derived)
  rValue,        \* resolver: what getTargetOptionValue returned
  group,         \* ordering: a sibling list as serializationPaths left it
  sorted,        \* ordering: the list sortStructuredData returned for it
  kSetting,      \* key lookup: itemsSetting, its entries in key order
  kUseTitle,     \* key lookup: the global useArticleTitle option
  kPath,         \* key lookup: the accumulated path of the segment
  kKey,          \* key lookup: the customInfoKey found, if any
  kOptions,      \* key lookup: the options built for the segment
  paths,         \* build: the relative paths of the md files glob returned
  pluginOptions, \* build: the Options the plugin was created with
  cacheFile,     \* build: the content of auto-nav-cache.json; undefined
                 \*        when the file is missing or is not JSON
  cache,         \* build: the module's cache, real path -> options, frontmatter
  visitedCache,  \* build: the real paths visited in this pass
  aliased,       \* build: the real paths whose cache entry holds the very
                 \*        options object of the tree node
  root,          \* build: the tree serializationPaths is building
  pathIndex,     \* build: the position in paths of the path being walked
  partIndex,     \* build: the position in pathParts of the segment at hand
  currentNode,   \* build: the sibling list appended to, as the path to it
  structured,    \* build: the tree after updateCommitTimes and sorting
  themeNav,      \* build: themeConfig.nav
  themeSidebar,  \* build: themeConfig.sidebar
  pass,          \* build: how many times the config hook has been entered
  firstRun,      \* build: what the previous pass produced
  siteNav,       \* build: the nav of the host's own configuration, if any
  spawned,       \* build: the real paths git was spawned for in this pass
  lines,         \* summary: the lines of SUMMARY.md that are not blank
  lineIndex,     \* summary: the position in lines of the line at hand
  stack,         \* summary: the open nodes, each with its depth
  sidebarItems,  \* summary: the items list of every node, by node; node 0
                 \*          stands for the sidebar array itself
  summaryNav,    \* summary: the nav array
  indent,        \* summary: the length of the indentation unit, once seen
  wEvent,        \* watcher: the event mdWatcher is called with
  wPath,         \* watcher: the kind of file the event is about
  wCache,        \* watcher: the frontmatter of the file's cache entry, if any
  wData,         \* watcher: the frontmatter and h1 the file holds now
  wReloaded,     \* watcher: whether mdWatcher called forceReload
  now,           \* throttle: Date.now(), in ticks
  lastExecTime,  \* throttle: when func was last run by the throttle
  timeoutId,     \* throttle: the pending timer, with the event it will pass
  calls,         \* throttle: the times at which mdWatcher was called
  arrived,       \* throttle: how many watcher events have arrived
  awaiting       \* throttle: an event that asks for a refresh has arrived
                 \*           and forceReload has not been called since

resolveVars == <<rKey, rFrontmatter, rOptions, rValue>>

sortVars == <<group, sorted>>

keyVars == <<kSetting, kUseTitle, kPath, kKey, kOptions>>

buildVars ==
  <<paths, pluginOptions, cacheFile, cache, visitedCache, aliased, root,
    pathIndex, partIndex, currentNode, structured, themeNav, themeSidebar,
    pass, firstRun, siteNav, spawned>>

summaryVars == <<lines, lineIndex, stack, sidebarItems, summaryNav, indent>>

watcherVars == <<wEvent, wPath, wCache, wData, wReloaded>>

throttleVars == <<now, lastExecTime, timeoutId, calls, arrived, awaiting>>

vars ==
  <<pc, resolveVars, sortVars, keyVars, buildVars, summaryVars, watcherVars,
    throttleVars>>

----------------------------------------------------------------------------
(* Bounds of the model *)

\* sort weights are drawn from 0..MaxSort
MaxSort == 2

\* timestamps are drawn from 1..MaxTime
MaxTime == 2

\* a sibling list given to the ordering holds at most MaxSiblings items
MaxSiblings == 3

\* itemsSetting holds at most MaxKeys entries in the key lookup
MaxKeys == 3

\* glob returns at most MaxPaths files to the build pass
MaxPaths == 3

\* a SUMMARY.md holds at most MaxLines lines that are not blank
MaxLines == 4

\* the watcher delivers at most MaxEvents events to the throttled listener
MaxEvents == 3

\* the delay of the throttle (1500 ms in configureServer), in clock ticks
delay == 2

----------------------------------------------------------------------------
(* Optional values *)

Undef == {}

Some(v) == {v}

IsDef(x) == x # {}

Val(x) == CHOOSE v \in x : TRUE

\* a ?? b
Nullish(a, b) == IF IsDef(a) THEN a ELSE b

----------------------------------------------------------------------------
(* ItemOptions, Frontmatter *)

\* the attribute keys of ItemOptions that frontmatter may override
AttrKeys == {"hide", "sort", "title", "useArticleTitle"}

\* the frontmatter keys the plugin reads
FrontmatterKeys ==
  {"nav-hide", "hide", "nav-sort", "sort", "nav-title", "title",
   "nav-useArticleTitle", "useArticleTitle", "h1"}

\* the keys of ItemCacheOptions = ItemOptions & TimesInfo
OptionKeys ==
  {"hide", "sort", "title", "useArticleTitle", "collapsed",
   "birthTime", "modifyTime", "firstCommitTime", "lastCommitTime"}

\* the values a defined attribute can take in the model
AttrDomain(key) ==
  CASE key = "hide" -> BOOLEAN
    [] key = "sort" -> 0..MaxSort
    [] key = "title" -> {"T1", "T2"}
    [] key = "useArticleTitle" -> BOOLEAN

OptionalOf(S) == {Undef} \cup {Some(v) : v \in S}

EmptyFrontmatter == [k \in FrontmatterKeys |-> Undef]

EmptyOptions == [k \in OptionKeys |-> Undef]

----------------------------------------------------------------------------
(* getTargetOptionValue *)

\* mutant: the itemsSetting value is read before the frontmatter
getTargetOptionValue_optionsFirst(frontmatter, options, key) ==
  Nullish(options[key], Nullish(frontmatter["nav-" \o key], frontmatter[key]))

\* frontmatter[`nav-${key}`] ?? frontmatter[key] ?? options[key]
getTargetOptionValue(frontmatter, options, key) ==
  Nullish(frontmatter["nav-" \o key], Nullish(frontmatter[key], options[key]))

----------------------------------------------------------------------------
(* The variables of the operations a specification leaves out *)

ResolveIdle ==
  /\ rKey = "hide"
  /\ rFrontmatter = EmptyFrontmatter
  /\ rOptions = EmptyOptions
  /\ rValue = Undef

SortIdle ==
  /\ group = <<>>
  /\ sorted = <<>>

KeyIdle ==
  /\ kSetting = <<>>
  /\ kUseTitle = Undef
  /\ kPath = <<>>
  /\ kKey = Undef
  /\ kOptions = EmptyOptions

BuildIdle ==
  /\ paths = <<>>
  /\ pluginOptions = [itemsSetting |-> <<>>, useArticleTitle |-> Undef,
                      indexAsFolderLink |-> Undef]
  /\ cacheFile = Undef
  /\ cache = <<>>
  /\ visitedCache = {}
  /\ aliased = {}
  /\ root = <<>>
  /\ pathIndex = 0
  /\ partIndex = 0
  /\ currentNode = <<>>
  /\ structured = <<>>
  /\ themeNav = Undef
  /\ themeSidebar = Undef
  /\ pass = 0
  /\ firstRun = Undef
  /\ siteNav = Undef
  /\ spawned = {}

SummaryIdle ==
  /\ lines = <<>>
  /\ lineIndex = 0
  /\ stack = <<>>
  /\ sidebarItems = <<>>
  /\ summaryNav = <<>>
  /\ indent = Undef

WatcherIdle ==
  /\ wEvent = "change"
  /\ wPath = "other"
  /\ wCache = Undef
  /\ wData = <<>>
  /\ wReloaded = Undef

ThrottleIdle ==
  /\ now = 0
  /\ lastExecTime = 0
  /\ timeoutId = Undef
  /\ calls = <<>>
  /\ arrived = 0
  /\ awaiting = FALSE

OthersIdle ==
  /\ SummaryIdle
  /\ WatcherIdle
  /\ ThrottleIdle

----------------------------------------------------------------------------
(* The resolver on its own: SpecResolve draws a key, the two frontmatter   *)
(* entries and the options entry it can read, and applies                  *)
(* getTargetOptionValue.                                                   *)

\* the other attributes of the item, none set or all set
DecoyFrontmatter(set) ==
  IF set
  THEN [k \in FrontmatterKeys |->
          CASE k \in {"nav-hide", "hide"} -> Some(TRUE)
            [] k \in {"nav-sort", "sort"} -> Some(MaxSort)
            [] k \in {"nav-title", "title", "h1"} -> Some("T2")
            [] OTHER -> Some(TRUE)]
  ELSE EmptyFrontmatter

DecoyOptions(set) ==
  IF set
  THEN [k \in OptionKeys |->
          CASE k \in {"hide", "useArticleTitle", "collapsed"} -> Some(FALSE)
            [] k = "title" -> Some("T1")
            [] OTHER -> Some(1)]
  ELSE EmptyOptions

InitResolve ==
  /\ pc = "resolve"
  /\ rKey \in AttrKeys
  /\ \E set \in BOOLEAN :
     \E p \in OptionalOf(AttrDomain(rKey)) :
     \E b \in OptionalOf(AttrDomain(rKey)) :
     \E s \in OptionalOf(AttrDomain(rKey)) :
       /\ rFrontmatter =
            [DecoyFrontmatter(set) EXCEPT !["nav-" \o rKey] = p, ![rKey] = b]
       /\ rOptions = [DecoyOptions(set) EXCEPT ![rKey] = s]
  /\ rValue = Undef
  /\ SortIdle
  /\ KeyIdle
  /\ BuildIdle
  /\ OthersIdle

Resolve ==
  /\ pc = "resolve"
  /\ rValue' = getTargetOptionValue(rFrontmatter, rOptions, rKey)
  /\ pc' = "resolved"
  /\ UNCHANGED <<rKey, rFrontmatter, rOptions, sortVars, keyVars, buildVars, summaryVars, watcherVars, throttleVars>>

NextResolve == Resolve

SpecResolve == InitResolve /\ [][NextResolve]_vars

\* C1: the resolved value of an attribute is the frontmatter value under
\* nav-<key> when that is defined, otherwise the frontmatter value under the
\* bare key when defined, otherwise the itemsSetting-derived value of the
\* item's options, and undefined when all three are absent; a defined falsy
\* frontmatter value (false, 0) is a defined value.
C1_ResolvePrecedence ==
  pc = "resolved" =>
    LET prefixed == rFrontmatter["nav-" \o rKey]
        bare == rFrontmatter[rKey]
        setting == rOptions[rKey]
    IN  /\ prefixed # Undef => rValue = prefixed
        /\ (prefixed = Undef /\ bare # Undef) => rValue = bare
        /\ (prefixed = Undef /\ bare = Undef) => rValue = setting
        /\ (prefixed = Undef /\ bare = Undef /\ setting = Undef)
             => rValue = Undef

\* the precedence scenario with a falsy frontmatter value: the item's
\* options carry a positive sort, the frontmatter sort 0, and 0 is resolved
C1_Witness ==
  /\ pc = "resolved"
  /\ rKey = "sort"
  /\ rFrontmatter["nav-sort"] = Undef
  /\ rFrontmatter["sort"] = Some(0)
  /\ rOptions["sort"] = Some(MaxSort)
  /\ rValue = Some(0)

----------------------------------------------------------------------------
(* Item, and the default comparison *)

\* the sign of a number
Sign(x) == IF x < 0 THEN -1 ELSE IF x > 0 THEN 1 ELSE 0

\* mutant: the local creation time is used although history is known
EarliestTime_birthOnly(item) == Val(item.options["birthTime"])

\* a.options.firstCommitTime || a.options.birthTime!
EarliestTime(item) ==
  LET first == item.options["firstCommitTime"]
  IN  IF IsDef(first) /\ Val(first) # 0
      THEN Val(first)
      ELSE Val(item.options["birthTime"])

\* getTargetOptionValue(a.frontmatter, a.options, "sort")
SortOf(item) == getTargetOptionValue(item.frontmatter, item.options, "sort")

\* mutant: a weight equal to the other's index compares as equal
defaultCompareFn_noIndexRule(a, b) ==
  LET sortA == SortOf(a)
      sortB == SortOf(b)
      timeA == EarliestTime(a)
      timeB == EarliestTime(b)
  IN  IF IsDef(sortA) /\ IsDef(sortB)
      THEN IF Val(sortA) - Val(sortB) # 0
           THEN Val(sortA) - Val(sortB)
           ELSE timeA - timeB
      ELSE IF IsDef(sortA) THEN Val(sortA) - b.index
      ELSE IF IsDef(sortB) THEN a.index - Val(sortB)
      ELSE timeA - timeB

\* defaultCompareFn(a, b)
defaultCompareFn(a, b) ==
  LET sortA == SortOf(a)
      sortB == SortOf(b)
      timeA == EarliestTime(a)
      timeB == EarliestTime(b)
  IN  IF IsDef(sortA) /\ IsDef(sortB)
      THEN \* sortA - sortB || timeA - timeB
           IF Val(sortA) - Val(sortB) # 0
           THEN Val(sortA) - Val(sortB)
           ELSE timeA - timeB
      ELSE IF IsDef(sortA) /\ ~IsDef(sortB)
      THEN \* sortA === b.index ? -1 : sortA - b.index
           IF Val(sortA) = b.index THEN -1 ELSE Val(sortA) - b.index
      ELSE IF ~IsDef(sortA) /\ IsDef(sortB)
      THEN \* sortB === a.index ? 1 : a.index - sortB
           IF Val(sortB) = a.index THEN 1 ELSE a.index - Val(sortB)
      ELSE timeA - timeB

----------------------------------------------------------------------------
(* Array.prototype.sort as the plugin's runtime (Node.js, V8) performs it  *)
(* on an array of fewer than 64 elements: the leading run is found (and    *)
(* reversed when strictly descending), then every further element is put   *)
(* in place by binary insertion.  Sequences are 1-based here; the          *)
(* positions named in comments are the 0-based ones of the array.          *)

\* s[from..to] reversed in place
ReverseRange(s, from, to) ==
  [i \in 1..Len(s) |-> IF i >= from /\ i <= to THEN s[from + to - i] ELSE s[i]]

RECURSIVE RunEnd(_, _, _)
\* the last position of the run that starts the array, i the next to compare
RunEnd(s, i, isDescending) ==
  IF i > Len(s) THEN Len(s)
  ELSE LET order == defaultCompareFn(s[i], s[i - 1])
       IN  IF (isDescending /\ order >= 0) \/ (~isDescending /\ order < 0)
           THEN i - 1
           ELSE RunEnd(s, i + 1, isDescending)

\* the length of the leading run and the array with that run ascending
CountAndMakeRun(s) ==
  IF Len(s) < 2 THEN [runLength |-> Len(s), array |-> s]
  ELSE LET isDescending == defaultCompareFn(s[2], s[1]) < 0
           runLength == RunEnd(s, 3, isDescending)
       IN  [runLength |-> runLength,
            array |-> IF isDescending THEN ReverseRange(s, 1, runLength) ELSE s]

RECURSIVE InsertionPoint(_, _, _, _)
\* where pivot belongs among s[left+1..right] (left, right as in the array)
InsertionPoint(s, pivot, left, right) ==
  IF left >= right THEN left
  ELSE LET mid == left + ((right - left) \div 2)
       IN  IF defaultCompareFn(pivot, s[mid + 1]) < 0
           THEN InsertionPoint(s, pivot, left, mid)
           ELSE InsertionPoint(s, pivot, mid + 1, right)

RECURSIVE BinaryInsertionSort(_, _)
\* s[1..start] is sorted; the elements from array position start on are put
\* in place one by one
BinaryInsertionSort(s, start) ==
  IF start >= Len(s) THEN s
  ELSE LET pivot == s[start + 1]
           left == InsertionPoint(s, pivot, 0, start)
           moved == [i \in 1..Len(s) |->
                       IF i <= left THEN s[i]
                       ELSE IF i = left + 1 THEN pivot
                       ELSE IF i <= start + 1 THEN s[i - 1]
                       ELSE s[i]]
       IN  BinaryInsertionSort(moved, start + 1)

\* data.sort((a, b) => compareFn(a, b, frontmatterPrefix))
ArraySort(s) ==
  LET run == CountAndMakeRun(s)
  IN  BinaryInsertionSort(run.array, run.runLength)

\* .map((item, index) => { item.index = index; ... })
AssignIndex(s) == [i \in 1..Len(s) |-> [s[i] EXCEPT !.index = i - 1]]

\* mutant: the list is returned in the order it came in
SortSiblings_unsorted(s) == AssignIndex(s)

\* sortStructuredData on one sibling list
SortSiblings(s) == ArraySort(AssignIndex(s))

----------------------------------------------------------------------------
(* The ordering on its own: SpecSort draws a sibling list and sorts it.    *)

\* an item of the list at position i (0-based): weight w, kept in the
\* options at even positions and in the frontmatter at odd ones; time t,
\* the first commit when the file has history (the file is then younger or
\* older on disk) and the creation time of the file otherwise
SortItem(i, w, t, hasHistory) ==
  [name |-> "item" \o ToString(i),
   isFolder |-> FALSE,
   index |-> 0,
   options |->
     [EmptyOptions EXCEPT
        !["sort"] = IF i % 2 = 1 THEN Undef ELSE w,
        !["birthTime"] = Some(IF hasHistory THEN MaxTime + 1 - t ELSE t),
        !["modifyTime"] = Some(MaxTime),
        !["firstCommitTime"] = IF hasHistory THEN Some(t) ELSE Undef,
        !["lastCommitTime"] = IF hasHistory THEN Some(MaxTime) ELSE Undef],
   frontmatter |->
     [EmptyFrontmatter EXCEPT !["sort"] = IF i % 2 = 1 THEN w ELSE Undef]]

InitSort ==
  /\ pc = "sort"
  /\ \E n \in 1..MaxSiblings :
     \E w \in [1..n -> OptionalOf(0..MaxSort)] :
     \E t \in [1..n -> 1..MaxTime] :
     \E h \in [1..n -> BOOLEAN] :
       group = [i \in 1..n |-> SortItem(i - 1, w[i], t[i], h[i])]
  /\ sorted = <<>>
  /\ ResolveIdle
  /\ KeyIdle
  /\ BuildIdle
  /\ OthersIdle

Sort ==
  /\ pc = "sort"
  /\ sorted' = SortSiblings(group)
  /\ pc' = "sorted"
  /\ UNCHANGED <<group, resolveVars, keyVars, buildVars, summaryVars, watcherVars, throttleVars>>

NextSort == Sort

SpecSort == InitSort /\ [][NextSort]_vars

\* the position (0-based) of the item called name in list s
PositionOf(s, name) == (CHOOSE i \in 1..Len(s) : s[i].name = name) - 1

\* the resolved weight of an item, as a claim reads it
WeightOf(item) ==
  IF item.frontmatter["nav-sort"] # Undef THEN item.frontmatter["nav-sort"]
  ELSE IF item.frontmatter["sort"] # Undef THEN item.frontmatter["sort"]
  ELSE item.options["sort"]

\* the earliest timestamp of an item, as a claim reads it
TimeOf(item) ==
  IF item.options["firstCommitTime"] # Undef
  THEN Val(item.options["firstCommitTime"])
  ELSE Val(item.options["birthTime"])

\* sorted holds the items of group, each once
SortedIsPermutation ==
  /\ Len(sorted) = Len(group)
  /\ \A i \in 1..Len(group) : \E j \in 1..Len(sorted) :
       sorted[j].name = group[i].name

\* C2: when every sibling has a weight and the weights are distinct, the
\* sorted list is in ascending order of weight.
C2_DistinctWeightsAscending ==
  (/\ pc = "sorted"
   /\ \A i \in 1..Len(group) : WeightOf(group[i]) # Undef
   /\ \A i, j \in 1..Len(group) :
        i # j => WeightOf(group[i]) # WeightOf(group[j]))
  => /\ SortedIsPermutation
     /\ \A i, j \in 1..Len(sorted) :
          i < j => Val(WeightOf(sorted[i])) < Val(WeightOf(sorted[j]))

\* three siblings with distinct weights, listed in descending order of weight
\* and with timestamps that ascend in the listed order, end up reversed
C2_Witness ==
  /\ pc = "sorted"
  /\ Len(group) = 3
  /\ \A i \in 1..3 : WeightOf(group[i]) = Some(3 - i)
  /\ TimeOf(group[1]) < TimeOf(group[3])
  /\ \A i \in 1..3 : sorted[i].name = group[4 - i].name

\* C3: when no sibling has a weight, the sorted list is in ascending order of
\* earliest timestamp: firstCommitTime when known, birthTime otherwise.
C3_NoWeightsByEarliestTime ==
  (/\ pc = "sorted"
   /\ \A i \in 1..Len(group) : WeightOf(group[i]) = Undef)
  => /\ SortedIsPermutation
     /\ \A i, j \in 1..Len(sorted) :
          i < j => TimeOf(sorted[i]) <= TimeOf(sorted[j])

\* two siblings without weights: the first has no history and a later
\* creation time than the second's first commit, though not a later one
\* than the second's creation, and ends up second
C3_Witness ==
  /\ pc = "sorted"
  /\ Len(group) = 2
  /\ \A i \in 1..2 : WeightOf(group[i]) = Undef
  /\ group[1].options["firstCommitTime"] = Undef
  /\ group[2].options["firstCommitTime"] # Undef
  /\ TimeOf(group[2]) < TimeOf(group[1])
  /\ Val(group[2].options["birthTime"]) >= TimeOf(group[1])
  /\ sorted[1].name = group[2].name


\* the siblings that carry a weight
Weighted(s) == {i \in 1..Len(s) : WeightOf(s[i]) # Undef}

\* C4: when exactly one sibling has a weight k, it stands at position k of
\* the sorted list, or at the last position when there are k or fewer other
\* siblings.
C4_WeightIsTargetPosition ==
  (pc = "sorted" /\ Cardinality(Weighted(group)) = 1)
  => LET i == CHOOSE w \in Weighted(group) : TRUE
         k == Val(WeightOf(group[i]))
         last == Len(group) - 1
     IN  PositionOf(sorted, group[i].name) = IF k <= last THEN k ELSE last

\* C5: the default comparison is a consistent order on every sibling list:
\* compare(a, b) and compare(b, a) have opposite signs, and a <= b, b <= c
\* give a <= c.
C5_ConsistentComparison ==
  pc = "sorted" =>
    \A i, j, k \in 1..Len(sorted) :
      LET a == sorted[i]
          b == sorted[j]
          c == sorted[k]
      IN  /\ Sign(defaultCompareFn(a, b)) = -Sign(defaultCompareFn(b, a))
          /\ (defaultCompareFn(a, b) <= 0 /\ defaultCompareFn(b, c) <= 0)
               => defaultCompareFn(a, c) <= 0

\* C6: the sign of defaultCompareFn(a, b) for two siblings: by weight and
\* then by time when both have a weight; a first when only a has a weight
\* that equals b's index, and by sortA - b.index otherwise; b first when only
\* b has a weight that equals a's index, and by a.index - sortB otherwise;
\* by time when neither has a weight.
C6_ComparisonSign ==
  pc = "sorted" =>
    \A i, j \in 1..Len(sorted) :
      LET a == sorted[i]
          b == sorted[j]
          sortA == WeightOf(a)
          sortB == WeightOf(b)
          got == Sign(defaultCompareFn(a, b))
      IN  i # j =>
          /\ (sortA # Undef /\ sortB # Undef /\ sortA # sortB)
               => got = Sign(Val(sortA) - Val(sortB))
          /\ (sortA # Undef /\ sortB # Undef /\ sortA = sortB)
               => got = Sign(TimeOf(a) - TimeOf(b))
          /\ (sortA # Undef /\ sortB = Undef /\ Val(sortA) = b.index)
               => got = -1
          /\ (sortA # Undef /\ sortB = Undef /\ Val(sortA) # b.index)
               => got = Sign(Val(sortA) - b.index)
          /\ (sortA = Undef /\ sortB # Undef /\ Val(sortB) = a.index)
               => got = 1
          /\ (sortA = Undef /\ sortB # Undef /\ Val(sortB) # a.index)
               => got = Sign(a.index - Val(sortB))
          /\ (sortA = Undef /\ sortB = Undef)
               => got = Sign(TimeOf(a) - TimeOf(b))

\* a list in which the four cases occur: two weighted siblings with the same
\* weight and different times, and an unweighted one whose index is that
\* weight
C6_Witness ==
  /\ pc = "sorted"
  /\ Len(sorted) = 3
  /\ \E i, j, k \in 1..3 :
       /\ i # j
       /\ WeightOf(sorted[i]) # Undef
       /\ WeightOf(sorted[i]) = WeightOf(sorted[j])
       /\ TimeOf(sorted[i]) # TimeOf(sorted[j])
       /\ WeightOf(sorted[k]) = Undef
       /\ sorted[k].index = Val(WeightOf(sorted[i]))
       /\ defaultCompareFn(sorted[i], sorted[k]) = -1
       /\ defaultCompareFn(sorted[k], sorted[i]) = 1

----------------------------------------------------------------------------
(* Paths and the itemsSetting lookup of serializationPaths.  A path, and a *)
(* normalized itemsSetting key, is the sequence of its segments: "c/b.md"  *)
(* is <<"c", "b.md">>.  itemsSetting is the sequence of its entries in the *)
(* order Object.keys lists them (the order of declaration).                *)

\* name.replace(".md", ""): the first ".md" of the name is removed
StripMd(name) ==
  CASE name = "b.md" -> "b"
    [] name = "x.md" -> "x"
    [] name = "y.md" -> "y"
    [] name = "index.md" -> "index"
    [] OTHER -> name

\* the keys of ItemOptions
ItemOptionKeys == {"hide", "sort", "title", "useArticleTitle", "collapsed"}

NoItemOptions == [k \in ItemOptionKeys |-> Undef]

\* pathKeys.find(p => ...): the position of the first entry whose key is one
\* of the accepted keys
FindKey(setting, accepted) ==
  LET hits == {i \in 1..Len(setting) : setting[i].key \in accepted}
  IN  IF hits = {} THEN Undef
      ELSE Some(CHOOSE i \in hits : \A j \in hits : i <= j)

\* mutant: the name is matched before the path
CustomInfoKey_nameFirst(setting, currentPath, name) ==
  LET byPath == FindKey(setting, {currentPath})
      byName == FindKey(setting, {<<name>>, <<StripMd(name)>>})
  IN  IF byName # Undef THEN byName ELSE byPath

\* customInfoKey: first the key equal to the path, then the first key equal
\* to the name or to the name without ".md"
CustomInfoKey(setting, currentPath, name) ==
  LET byPath == FindKey(setting, {currentPath})
  IN  IF byPath # Undef THEN byPath
      ELSE FindKey(setting, {<<name>>, <<StripMd(name)>>})

\* the options of a segment before its timestamps are added
CustomOptions(setting, useArticleTitle, currentPath, name) ==
  LET found == CustomInfoKey(setting, currentPath, name)
  IN  IF found = Undef
      THEN [EmptyOptions EXCEPT !["useArticleTitle"] = useArticleTitle]
      ELSE LET info == setting[Val(found)].value
           IN  [EmptyOptions EXCEPT
                  !["collapsed"] = info["collapsed"],
                  !["hide"] = info["hide"],
                  !["sort"] = info["sort"],
                  !["title"] = info["title"],
                  !["useArticleTitle"] =
                     Nullish(info["useArticleTitle"], useArticleTitle)]

----------------------------------------------------------------------------
(* The key lookup on its own: SpecKeys draws itemsSetting, the global      *)
(* useArticleTitle and a segment, and builds the segment's options.        *)

\* the entries itemsSetting is drawn from; each sets different attributes
SettingUniverse ==
  { [key |-> <<"c", "b.md">>, value |-> [NoItemOptions EXCEPT !["sort"] = Some(1)]],
    [key |-> <<"b.md">>,
     value |-> [NoItemOptions EXCEPT !["sort"] = Some(2), !["title"] = Some("T1")]],
    [key |-> <<"b">>,
     value |-> [NoItemOptions EXCEPT !["title"] = Some("T2"),
                                     !["collapsed"] = Some(TRUE),
                                     !["useArticleTitle"] = Some(FALSE)]],
    [key |-> <<"c", "b">>,
     value |-> [NoItemOptions EXCEPT !["sort"] = Some(0), !["hide"] = Some(TRUE)]],
    [key |-> <<"c">>, value |-> [NoItemOptions EXCEPT !["collapsed"] = Some(TRUE)]] }

\* the sequences of at most n distinct elements of S
DistinctSeqs(S, n) ==
  UNION { {q \in [1..m -> S] : \A i, j \in 1..m : i # j => q[i] # q[j]} :
          m \in 0..n }

\* the segments looked up
SegmentUniverse == { <<"c">>, <<"c", "b.md">>, <<"c", "b">>, <<"b.md">> }

InitKeys ==
  /\ pc = "lookup"
  /\ kSetting \in DistinctSeqs(SettingUniverse, MaxKeys)
  /\ kUseTitle \in OptionalOf(BOOLEAN)
  /\ kPath \in SegmentUniverse
  /\ kKey = Undef
  /\ kOptions = EmptyOptions
  /\ ResolveIdle
  /\ SortIdle
  /\ BuildIdle
  /\ OthersIdle

Lookup ==
  /\ pc = "lookup"
  /\ LET name == kPath[Len(kPath)]
         found == CustomInfoKey(kSetting, kPath, name)
     IN  /\ kKey' = IF found = Undef THEN Undef ELSE Some(kSetting[Val(found)].key)
         /\ kOptions' = CustomOptions(kSetting, kUseTitle, kPath, name)
  /\ pc' = "looked up"
  /\ UNCHANGED <<kSetting, kUseTitle, kPath, resolveVars, sortVars, buildVars, summaryVars, watcherVars, throttleVars>>

NextKeys == Lookup

SpecKeys == InitKeys /\ [][NextKeys]_vars

\* the keys declared
DeclaredKeys == {kSetting[i].key : i \in 1..Len(kSetting)}

\* the entry declared under key
EntryOf(key) == (CHOOSE i \in 1..Len(kSetting) : kSetting[i].key = key)

\* the options are those of the entry at position i alone
OptionsAreOf(i) ==
  /\ \A a \in {"hide", "sort", "title", "collapsed"} :
       kOptions[a] = kSetting[i].value[a]
  /\ kOptions["useArticleTitle"] =
       IF kSetting[i].value["useArticleTitle"] # Undef
       THEN kSetting[i].value["useArticleTitle"]
       ELSE kUseTitle

\* C10 as claimed: the key applied is the path key, else the bare name, else
\* the name without .md, whatever the order of declaration, and the options
\* are those of that key alone.
C10_KeyOrderAsClaimed ==
  pc = "looked up" =>
    LET name == kPath[Len(kPath)]
        expected ==
          IF kPath \in DeclaredKeys THEN Some(kPath)
          ELSE IF <<name>> \in DeclaredKeys THEN Some(<<name>>)
          ELSE IF <<StripMd(name)>> \in DeclaredKeys THEN Some(<<StripMd(name)>>)
          ELSE Undef
    IN  /\ kKey = expected
        /\ expected # Undef => OptionsAreOf(EntryOf(Val(expected)))

\* C10 amended: the key applied is the path key when declared; otherwise the
\* first key, in the order of declaration, that equals the bare name or the
\* name without .md; the options are those of that key alone.
C10_KeyOrder ==
  pc = "looked up" =>
    LET name == kPath[Len(kPath)]
        nameHits == {i \in 1..Len(kSetting) :
                       kSetting[i].key \in {<<name>>, <<StripMd(name)>>}}
    IN  /\ kPath \in DeclaredKeys
             => kKey = Some(kPath) /\ OptionsAreOf(EntryOf(kPath))
        /\ (kPath \notin DeclaredKeys /\ nameHits # {})
             => \E i \in nameHits :
                  /\ \A j \in nameHits : i <= j
                  /\ kKey = Some(kSetting[i].key)
                  /\ OptionsAreOf(i)
        /\ (kPath \notin DeclaredKeys /\ nameHits = {})
             => /\ kKey = Undef
                /\ kOptions =
                     [EmptyOptions EXCEPT !["useArticleTitle"] = kUseTitle]

\* file c/b.md with the keys b, b.md and c/b.md declared in that order: the
\* path key, declared last, is applied and nothing of the others is merged
C10_Witness ==
  /\ pc = "looked up"
  /\ kPath = <<"c", "b.md">>
  /\ Len(kSetting) = 3
  /\ kSetting[1].key = <<"b">>
  /\ kSetting[2].key = <<"b.md">>
  /\ kSetting[3].key = <<"c", "b.md">>
  /\ kKey = Some(<<"c", "b.md">>)
  /\ kOptions["sort"] = Some(1)
  /\ kOptions["title"] = Undef
  /\ kOptions["collapsed"] = Undef

----------------------------------------------------------------------------
(* The documentation directory the build pass runs on.  A path is the      *)
(* sequence of its segment names; the real path of a segment is its path   *)
(* under srcDir, which is fixed, so the relative path stands for it.       *)

\* the md files glob can return (the root index.md is always ignored)
FileUniverse ==
  { <<"a", "index.md">>, <<"a", "x.md">>,
    <<"a", "b", "index.md">>, <<"a", "b", "x.md">>, <<"a", "b", "y.md">>,
    <<"c", "b.md">> }

\* the md files of a directory in which folder a holds a folder named index
IndexFolderUniverse ==
  { <<"a", "index", "x.md">>, <<"a", "index.md">>, <<"a", "x.md">>,
    <<"c", "b.md">> }

\* mutant: every segment is taken for a file
IsDirectory_never(realPath) == FALSE

\* (await stat(realPath)).isDirectory()
IsDirectory(realPath) ==
  \E file \in FileUniverse \cup IndexFolderUniverse :
    /\ Len(file) > Len(realPath)
    /\ SubSeq(file, 1, Len(realPath)) = realPath

\* (await stat(absolutePath)).birthtimeMs
BirthtimeMs(realPath) ==
  CASE realPath = <<"a">> -> 20
    [] realPath = <<"a", "index.md">> -> 26
    [] realPath = <<"a", "x.md">> -> 21
    [] realPath = <<"a", "b">> -> 22
    [] realPath = <<"a", "b", "index.md">> -> 25
    [] realPath = <<"a", "b", "x.md">> -> 24
    [] realPath = <<"a", "b", "y.md">> -> 23
    [] realPath = <<"c">> -> 10
    [] realPath = <<"c", "b.md">> -> 11
    [] OTHER -> 30

\* (await stat(absolutePath)).mtimeMs
MtimeMs(realPath) == BirthtimeMs(realPath) + 10

\* the times git log prints for a file, one per commit, newest first
GitLog(realPath) ==
  CASE realPath = <<"a", "x.md">> -> <<7, 3>>
    [] realPath = <<"a", "b", "index.md">> -> <<5>>
    [] realPath = <<"a", "b", "y.md">> -> <<8, 4, 2>>
    [] realPath = <<"c", "b.md">> -> <<6>>
    [] OTHER -> <<>>

\* matter(file).data with data.h1 = getArticleTitle(content, data): the
\* frontmatter the file's text holds, and its first-level heading
FileData(realPath) ==
  CASE realPath = <<"a", "index.md">> ->
         [EmptyFrontmatter EXCEPT !["title"] = Some("T1"), !["h1"] = Some("H1")]
    [] realPath = <<"a", "x.md">> ->
         [EmptyFrontmatter EXCEPT !["useArticleTitle"] = Some(TRUE),
                                  !["h1"] = Some("H2")]
    [] realPath = <<"a", "b", "index.md">> ->
         [EmptyFrontmatter EXCEPT !["nav-sort"] = Some(0)]
    [] realPath = <<"a", "b", "x.md">> ->
         [EmptyFrontmatter EXCEPT !["sort"] = Some(1),
                                  !["nav-useArticleTitle"] = Some(FALSE),
                                  !["h1"] = Some("H3")]
    [] realPath = <<"a", "b", "y.md">> ->
         [EmptyFrontmatter EXCEPT !["hide"] = Some(FALSE)]
    [] OTHER -> EmptyFrontmatter

----------------------------------------------------------------------------
(* Item[]: a sibling list is a sequence of items, each with its children   *)

\* currentNode.find((node) => node.name === name), as a position
FindNode(siblings, name) ==
  LET hits == {k \in 1..Len(siblings) : siblings[k].name = name}
  IN  IF hits = {} THEN Undef
      ELSE Some(CHOOSE k \in hits : \A l \in hits : k <= l)

\* mutant: no node is ever found, every segment gets a node of its own
AlreadyProcessed_never(siblings, name) == FALSE

\* mutant: only the node pushed last is looked at
AlreadyProcessed_lastOnly(siblings, name) ==
  /\ Len(siblings) > 0
  /\ siblings[Len(siblings)].name = name

\* let childNode = currentNode.find(...); if (!childNode) { ... push }
AlreadyProcessed(siblings, name) == FindNode(siblings, name) # Undef

RECURSIVE ChildrenAt(_, _)
\* the sibling list reached from siblings through the folders named in at
ChildrenAt(siblings, at) ==
  IF at = <<>> THEN siblings
  ELSE ChildrenAt(siblings[Val(FindNode(siblings, Head(at)))].children, Tail(at))

RECURSIVE PushAt(_, _, _)
\* currentNode.push(childNode), currentNode being the list reached through at
PushAt(siblings, at, childNode) ==
  IF at = <<>> THEN Append(siblings, childNode)
  ELSE LET k == Val(FindNode(siblings, Head(at)))
       IN  [siblings EXCEPT
              ![k].children = PushAt(siblings[k].children, Tail(at), childNode)]

----------------------------------------------------------------------------
(* getTimestamp, getArticleData *)

\* the keys of TimesInfo
TimeKeys == {"birthTime", "modifyTime", "firstCommitTime", "lastCommitTime"}

\* the segment at hand: currentPath, which also stands for realPath
CurrentPath == SubSeq(paths[pathIndex], 1, partIndex)

\* mutant: the cache is never trusted
CacheHit_never(realPath) == FALSE

\* cacheData && currentMTime === cacheData.options.modifyTime
CacheHit(realPath) ==
  /\ realPath \in DOMAIN cache
  /\ cache[realPath].options["modifyTime"] = Some(MtimeMs(realPath))

\* mutant: only the local times are taken from the cache entry
CachedTimes_localOnly(realPath) ==
  [k \in TimeKeys |->
     IF k \in {"birthTime", "modifyTime"} THEN cache[realPath].options[k]
     ELSE Undef]

\* getTimestamp, cache branch: the four times of the cache entry
CachedTimes(realPath) == [k \in TimeKeys |-> cache[realPath].options[k]]

\* resolve({ birthTime, modifyTime })
StatTimes(realPath) ==
  [k \in TimeKeys |->
     CASE k = "birthTime" -> Some(BirthtimeMs(realPath))
       [] k = "modifyTime" -> Some(MtimeMs(realPath))
       [] OTHER -> Undef]

\* mutant: after an error the times of a cache entry, however old, are used
ErrorTimes_staleCache(realPath) ==
  IF realPath \in DOMAIN cache
  THEN [k \in TimeKeys |-> cache[realPath].options[k]]
  ELSE StatTimes(realPath)

\* the error handler of the git child: resolve({ birthTime, modifyTime })
ErrorTimes(realPath) == StatTimes(realPath)

\* the close handler of the git child, output being the times it printed
CloseTimes(realPath, output) ==
  IF Len(output) # 0
  THEN [StatTimes(realPath) EXCEPT
          !["lastCommitTime"] = Some(output[Len(output)]),
          !["firstCommitTime"] = Some(output[1])]
  ELSE StatTimes(realPath)

\* getArticleData(absolutePath)
getArticleData(absolutePath) ==
  IF CacheHit(absolutePath)
  THEN cache[absolutePath].frontmatter
  ELSE FileData(absolutePath)

----------------------------------------------------------------------------
(* serializationPaths: one round of the loop over pathParts *)

\* the loop over paths moves to the next path, or the function returns
NextPath ==
  IF pathIndex = Len(paths)
  THEN /\ pc' = "generate"
       /\ UNCHANGED <<pathIndex, partIndex>>
       /\ currentNode' = <<>>
  ELSE /\ pc' = "segment"
       /\ pathIndex' = pathIndex + 1
       /\ partIndex' = 1
       /\ currentNode' = <<>>

\* mutant: only the document's own metadata can hide a segment
SkipSegment_frontmatterOnly(frontmatter, options) ==
  Nullish(frontmatter["nav-hide"], frontmatter["hide"]) = Some(TRUE)

\* if (getTargetOptionValue(frontmatter, options, "hide")) break
SkipSegment(frontmatter, options) ==
  getTargetOptionValue(frontmatter, options, "hide") = Some(TRUE)

\* the round from "options = { ...options, ...timestampData }" on
AddSegment(timestampData) ==
  LET pathParts == paths[pathIndex]
      segment == pathParts[partIndex]
      realPath == CurrentPath
      isFolder == IsDirectory(realPath)
      custom == CustomOptions(pluginOptions.itemsSetting,
                              pluginOptions.useArticleTitle, realPath, segment)
      options == [k \in OptionKeys |->
                    IF k \in TimeKeys THEN timestampData[k] ELSE custom[k]]
      frontmatter == IF isFolder THEN EmptyFrontmatter
                     ELSE getArticleData(realPath)
      siblings == ChildrenAt(root, currentNode)
      childNode == [index |-> 0, name |-> segment, isFolder |-> isFolder,
                    options |-> options, frontmatter |-> frontmatter,
                    children |-> <<>>]
  IN  /\ cache' = [p \in DOMAIN cache \cup {realPath} |->
                     IF p = realPath
                     THEN [options |-> options, frontmatter |-> frontmatter]
                     ELSE cache[p]]
      /\ visitedCache' = visitedCache \cup {realPath}
      /\ IF SkipSegment(frontmatter, options)
         THEN \* break
              /\ aliased' = aliased \ {realPath}
              /\ root' = root
              /\ NextPath
         ELSE /\ IF ~AlreadyProcessed(siblings, segment)
                 THEN /\ root' = PushAt(root, currentNode, childNode)
                      /\ aliased' = aliased \cup {realPath}
                 ELSE /\ root' = root
                      /\ aliased' = aliased \ {realPath}
              /\ IF partIndex = Len(pathParts)
                 THEN NextPath
                 ELSE /\ pc' = "segment"
                      /\ pathIndex' = pathIndex
                      /\ partIndex' = partIndex + 1
                      /\ currentNode' = Append(currentNode, segment)
      /\ UNCHANGED <<paths, pluginOptions, cacheFile, structured, themeNav,
                     themeSidebar, pass, firstRun, siteNav, spawned>>
      /\ UNCHANGED <<resolveVars, sortVars, keyVars, summaryVars, watcherVars, throttleVars>>

\* a round up to the answer of getTimestamp: from the cache, from stat for a
\* folder, or a git child is spawned and the round waits for it
Segment ==
  /\ pc = "segment"
  /\ IF CacheHit(CurrentPath)
     THEN AddSegment(CachedTimes(CurrentPath))
     ELSE IF IsDirectory(CurrentPath)
     THEN AddSegment(StatTimes(CurrentPath))
     ELSE /\ pc' = "git"
          /\ spawned' = spawned \cup {CurrentPath}
          /\ UNCHANGED <<paths, pluginOptions, cacheFile, cache, visitedCache,
                         aliased, root, pathIndex, partIndex, currentNode,
                         structured, themeNav, themeSidebar, pass, firstRun,
                         siteNav>>
          /\ UNCHANGED <<resolveVars, sortVars, keyVars, summaryVars, watcherVars, throttleVars>>

\* the git child closes, having printed the file's commits or nothing
GitClose ==
  /\ pc = "git"
  /\ \E output \in {GitLog(CurrentPath), <<>>} :
       AddSegment(CloseTimes(CurrentPath, output))

\* the git child could not be run
GitError ==
  /\ pc = "git"
  /\ AddSegment(ErrorTimes(CurrentPath))

----------------------------------------------------------------------------
(* updateCommitTimes, sortStructuredData over the tree *)

\* Math.min(a ?? Infinity, b ?? Infinity), Infinity being kept as undefined:
\* the result is only ever read by this operator again or turned into
\* undefined when it is Infinity
MinCommitTime(a, b) ==
  IF ~IsDef(a) THEN b
  ELSE IF ~IsDef(b) THEN a
  ELSE IF Val(a) <= Val(b) THEN a ELSE b

\* Math.max(a, b ?? 0), the running maximum a starting as 0
MaxCommitTime(a, b) ==
  IF IsDef(b) /\ Val(b) > a THEN Val(b) ELSE a

\* mutant: only the files directly in the folder are looked at
getFolderCommitTimes_filesOnly(children) ==
  LET files == {k \in 1..Len(children) : ~children[k].isFolder}
      firsts == UNION {children[k].options["firstCommitTime"] : k \in files}
      lasts == UNION {children[k].options["lastCommitTime"] : k \in files}
  IN  [minFirstCommitTime |->
         IF firsts = {} THEN Undef
         ELSE Some(CHOOSE t \in firsts : \A u \in firsts : t <= u),
       maxLastCommitTime |->
         IF lasts = {} THEN Undef
         ELSE Some(CHOOSE t \in lasts : \A u \in lasts : t >= u)]

RECURSIVE getFolderCommitTimes(_)
RECURSIVE FolderCommitTimesFrom(_, _, _, _)
\* the loop of getFolderCommitTimes from the k-th child on
FolderCommitTimesFrom(children, k, minFirstCommitTime, maxLastCommitTime) ==
  IF k > Len(children)
  THEN [minFirstCommitTime |-> minFirstCommitTime,
        maxLastCommitTime |->
          IF maxLastCommitTime = 0 THEN Undef ELSE Some(maxLastCommitTime)]
  ELSE LET item == children[k]
           folderTimes == getFolderCommitTimes(item.children)
       IN  IF item.isFolder
           THEN FolderCommitTimesFrom(children, k + 1,
                  MinCommitTime(minFirstCommitTime, folderTimes.minFirstCommitTime),
                  MaxCommitTime(maxLastCommitTime, folderTimes.maxLastCommitTime))
           ELSE FolderCommitTimesFrom(children, k + 1,
                  MinCommitTime(minFirstCommitTime, item.options["firstCommitTime"]),
                  MaxCommitTime(maxLastCommitTime, item.options["lastCommitTime"]))

\* getFolderCommitTimes(children)
getFolderCommitTimes(children) == FolderCommitTimesFrom(children, 1, Undef, 0)

RECURSIVE updateCommitTimes(_)
\* updateCommitTimes(data), as the tree it leaves
updateCommitTimes(items) ==
  [k \in 1..Len(items) |->
     IF items[k].isFolder
     THEN LET children == updateCommitTimes(items[k].children)
              folderTimes == getFolderCommitTimes(children)
          IN  [items[k] EXCEPT
                 !.children = children,
                 !.options["firstCommitTime"] = folderTimes.minFirstCommitTime,
                 !.options["lastCommitTime"] = folderTimes.maxLastCommitTime]
     ELSE items[k]]

\* the item of the tree at a path
NodeAt(items, at) ==
  LET siblings == ChildrenAt(items, SubSeq(at, 1, Len(at) - 1))
  IN  siblings[Val(FindNode(siblings, at[Len(at)]))]

\* the cache once updateCommitTimes has written into the options objects of
\* the tree: an entry that holds the object of a node shows what was written
CacheAfterUpdate(updated) ==
  [p \in DOMAIN cache |->
     IF p \in aliased
     THEN [cache[p] EXCEPT !.options = NodeAt(updated, p).options]
     ELSE cache[p]]

RECURSIVE sortStructuredData(_)
\* sortStructuredData(data, defaultCompareFn)
sortStructuredData(items) ==
  ArraySort([k \in 1..Len(items) |->
               [items[k] EXCEPT
                  !.index = k - 1,
                  !.children = IF Len(@) > 0 THEN sortStructuredData(@) ELSE @]])

----------------------------------------------------------------------------
(* generateNav, generateSidebar.  A link "/a/b/x" is the sequence of its   *)
(* parts <<"a", "b", "x">>, and a link that ends in "/" ends in an empty   *)
(* part: "/a/b/" is <<"a", "b", "">>.                                      *)

RECURSIVE ReplaceMd(_)
\* path.replace(".md", ""): the first part that holds ".md" loses it
ReplaceMd(link) ==
  IF link = <<>> THEN <<>>
  ELSE IF StripMd(Head(link)) # Head(link)
  THEN <<StripMd(Head(link))>> \o Tail(link)
  ELSE <<Head(link)>> \o ReplaceMd(Tail(link))

RECURSIVE getFirstArticleFromFolder(_, _)
\* getFirstArticleFromFolder(data, path)
getFirstArticleFromFolder(item, path) ==
  IF Len(item.children) > 0
  THEN getFirstArticleFromFolder(item.children[1], Append(path, item.name))
  ELSE ReplaceMd(Append(path, item.name))

\* generateNav(structuredData)
generateNav(structuredData) ==
  [k \in 1..Len(structuredData) |->
     LET item == structuredData[k]
         title == item.options["title"]
     IN  [text |-> IF IsDef(title) /\ Val(title) # "" THEN Val(title)
                   ELSE item.name,
          activeMatch |-> <<item.name, "">>,
          link |-> getFirstArticleFromFolder(item, <<>>)]]

\* mutant: the heading is never used
SidebarText_noHeading(file) ==
  LET title == getTargetOptionValue(file.frontmatter, file.options, "title")
  IN  IF IsDef(title) /\ Val(title) # "" THEN Val(title)
      ELSE StripMd(file.name)

\* title || (useArticleTitle && file.frontmatter.h1) || name without ".md"
SidebarText(file) ==
  LET title == getTargetOptionValue(file.frontmatter, file.options, "title")
      useTitle == getTargetOptionValue(file.frontmatter, file.options,
                                       "useArticleTitle")
      h1 == file.frontmatter["h1"]
  IN  IF IsDef(title) /\ Val(title) # "" THEN Val(title)
      ELSE IF useTitle = Some(TRUE) /\ IsDef(h1) /\ Val(h1) # "" THEN Val(h1)
      ELSE StripMd(file.name)

RECURSIVE traverseSubFile(_, _, _)
RECURSIVE TraverseFrom(_, _, _, _, _, _)
\* the reduce of traverseSubFile from the k-th item on; link and sidebarMulti
\* are what the items before it left
TraverseFrom(subData, k, parentPath, indexAsFolderLink, link, sidebarMulti) ==
  IF k > Len(subData) THEN [link |-> link, sidebarMulti |-> sidebarMulti]
  ELSE LET file == subData[k]
           isIndex == StripMd(file.name) = "index"
           filePath == IF isIndex THEN Append(parentPath, "")
                       ELSE Append(parentPath, file.name)
           result == traverseSubFile(file.children, filePath, indexAsFolderLink)
       IN  IF indexAsFolderLink /\ isIndex
           THEN TraverseFrom(subData, k + 1, parentPath, indexAsFolderLink,
                             Some(filePath), sidebarMulti)
           ELSE IF file.isFolder
           THEN TraverseFrom(subData, k + 1, parentPath, indexAsFolderLink, link,
                  Append(sidebarMulti,
                         [text |-> SidebarText(file),
                          collapsed |->
                            Val(Nullish(file.options["collapsed"], Some(FALSE))),
                          items |-> result.sidebarMulti,
                          link |-> result.link]))
           ELSE TraverseFrom(subData, k + 1, parentPath, indexAsFolderLink, link,
                  Append(sidebarMulti,
                         [text |-> SidebarText(file),
                          link |-> Some(ReplaceMd(filePath))]))

\* traverseSubFile(subData, parentPath)
traverseSubFile(subData, parentPath, indexAsFolderLink) ==
  TraverseFrom(subData, 1, parentPath, indexAsFolderLink, Undef, <<>>)

\* generateSidebar(structuredData, options): the sidebar as a function of
\* its keys `/${name}/`; a later item of the same name overwrites
generateSidebar(structuredData, options) ==
  LET indexAsFolderLink == Val(Nullish(options.indexAsFolderLink, Some(TRUE)))
      last(key) == CHOOSE k \in 1..Len(structuredData) :
                     /\ structuredData[k].name = key
                     /\ \A l \in 1..Len(structuredData) :
                          structuredData[l].name = key => l <= k
  IN  [route \in {<<structuredData[k].name, "">> : k \in 1..Len(structuredData)} |->
         traverseSubFile(structuredData[last(route[1])].children,
                         <<route[1]>>, indexAsFolderLink).sidebarMulti]

----------------------------------------------------------------------------
(* The build pass: the plugin's config hook, entered once per (re)start of *)
(* the host.  SpecBuild runs it twice on the same directory and options.   *)

\* the Options the plugin is created with in the model
OptionsUniverse ==
  { [itemsSetting |-> <<>>, useArticleTitle |-> Undef,
     indexAsFolderLink |-> Undef],
    [itemsSetting |->
       << [key |-> <<"a", "b">>,
           value |-> [NoItemOptions EXCEPT !["hide"] = Some(TRUE)]],
          [key |-> <<"y.md">>,
           value |-> [NoItemOptions EXCEPT !["hide"] = Some(FALSE)]] >>,
     useArticleTitle |-> Some(TRUE), indexAsFolderLink |-> Undef],
    [itemsSetting |->
       << [key |-> <<"b">>,
           value |-> [NoItemOptions EXCEPT !["hide"] = Some(TRUE)]] >>,
     useArticleTitle |-> Undef, indexAsFolderLink |-> Some(FALSE)],
    [itemsSetting |->
       << [key |-> <<"a">>,
           value |-> [NoItemOptions EXCEPT !["hide"] = Some(TRUE)]],
          [key |-> <<"a", "x.md">>,
           value |-> [NoItemOptions EXCEPT !["hide"] = Some(FALSE)]] >>,
     useArticleTitle |-> Undef, indexAsFolderLink |-> Undef],
    [itemsSetting |->
       << [key |-> <<"c">>,
           value |-> [NoItemOptions EXCEPT !["title"] = Some("T2"),
                                            !["collapsed"] = Some(TRUE)]],
          [key |-> <<"x">>,
           value |-> [NoItemOptions EXCEPT !["sort"] = Some(0)]],
          [key |-> <<"b">>,
           value |-> [NoItemOptions EXCEPT !["collapsed"] = Some(TRUE),
                                            !["useArticleTitle"] = Some(FALSE)]] >>,
     useArticleTitle |-> Some(TRUE), indexAsFolderLink |-> Some(TRUE)] }

\* a cache file left by an earlier session: a/x.md was modified since, c/b.md
\* was not (its cached history and heading are not what git and the file
\* would say now), old.md is gone
EarlierCache ==
  [p \in {<<"a", "x.md">>, <<"c", "b.md">>, <<"old.md">>} |->
     [options |->
        [EmptyOptions EXCEPT
           !["birthTime"] = Some(BirthtimeMs(p)),
           !["modifyTime"] = Some(IF p = <<"a", "x.md">> THEN MtimeMs(p) - 1
                                  ELSE MtimeMs(p)),
           !["firstCommitTime"] = Some(9),
           !["lastCommitTime"] = Some(9)],
      frontmatter |-> [EmptyFrontmatter EXCEPT !["h1"] = Some("H4")]]]

\* the lists of at most n distinct files, in every order
PathLists(n) ==
  UNION {{s \in [1..m -> FileUniverse] :
            \A k, l \in 1..m : k # l => s[k] # s[l]} : m \in 0..n}

InitBuild ==
  /\ pc = "config"
  /\ paths \in PathLists(MaxPaths)
  /\ pluginOptions \in OptionsUniverse
  /\ cacheFile \in {Undef, Some(EarlierCache)}
  /\ cache = <<>>
  /\ visitedCache = {}
  /\ aliased = {}
  /\ root = <<>>
  /\ pathIndex = 0
  /\ partIndex = 0
  /\ currentNode = <<>>
  /\ structured = <<>>
  /\ themeNav = Undef
  /\ themeSidebar = Undef
  /\ pass = 0
  /\ firstRun = Undef
  /\ siteNav = Undef
  /\ spawned = {}
  /\ ResolveIdle
  /\ SortIdle
  /\ KeyIdle
  /\ OthersIdle

\* mutant: without a readable cache file the pass starts from an empty cache
LoadCache_coldStart(file, memory) ==
  IF IsDef(file) THEN Val(file) ELSE <<>>

\* try { cache = JSON.parse(await readFile(...)) || {} } catch (error) {}:
\* a file that is missing or does not parse leaves the cache as it is
LoadCache(file, memory) ==
  IF IsDef(file) THEN Val(file) ELSE memory

\* config(config) up to the call of serializationPaths: the host's nav is
\* read, visitedCache is cleared, the cache file is loaded
Config ==
  /\ pc = "config"
  /\ pass' = pass + 1
  /\ visitedCache' = {}
  /\ cache' = LoadCache(cacheFile, cache)
  /\ spawned' = {}
  /\ aliased' = {}
  /\ root' = <<>>
  /\ currentNode' = <<>>
  /\ structured' = <<>>
  /\ themeNav' = siteNav
  /\ themeSidebar' = Undef
  /\ IF Len(paths) = 0
     THEN pc' = "generate" /\ pathIndex' = 0 /\ partIndex' = 0
     ELSE pc' = "segment" /\ pathIndex' = 1 /\ partIndex' = 1
  /\ UNCHANGED <<paths, pluginOptions, cacheFile, firstRun, siteNav>>
  /\ UNCHANGED <<resolveVars, sortVars, keyVars, summaryVars, watcherVars, throttleVars>>

\* mutant: a nav without entries counts as no nav
AssignNav_emptyReplaced(nav, generated) ==
  IF nav = Undef \/ nav = Some(<<>>) THEN Some(generated) ELSE nav

\* if (!nav) themeConfig.nav = generateNav(data): an array, even an empty
\* one, is truthy
AssignNav(nav, generated) ==
  IF nav = Undef THEN Some(generated) ELSE nav

\* mutant: nothing is deleted from the cache
PruneCache_keepAll(entries, visited) == entries

\* for (let key in cache) if (!visitedCache.has(key)) delete cache[key]
PruneCache(entries, visited) ==
  [p \in DOMAIN entries \cap visited |-> entries[p]]

\* config(config) after serializationPaths: folder commit times, sorting,
\* nav (when the host's config has none), sidebar, the cache pruned and written
Generate ==
  /\ pc = "generate"
  /\ LET updated == updateCommitTimes(root)
         sortedData == sortStructuredData(updated)
         written == CacheAfterUpdate(updated)
         kept == PruneCache(written, visitedCache)
     IN  /\ structured' = sortedData
         /\ themeNav' = AssignNav(themeNav, generateNav(sortedData))
         /\ themeSidebar' = Some(generateSidebar(sortedData, pluginOptions))
         /\ cache' = kept
         /\ cacheFile' = Some(kept)
  /\ pc' = "done"
  /\ UNCHANGED <<paths, pluginOptions, visitedCache, aliased, root, pathIndex,
                 partIndex, currentNode, pass, firstRun, siteNav, spawned>>
  /\ UNCHANGED <<resolveVars, sortVars, keyVars, summaryVars, watcherVars, throttleVars>>

\* the host restarts and enters the hook again: the documents and the
\* options have not changed, the cache is as the first pass left it; the
\* cache file is as written, or it has been removed or damaged meanwhile
Rebuild ==
  /\ pc = "done"
  /\ pass = 1
  /\ pc' = "config"
  /\ firstRun' = Some([data |-> structured, nav |-> themeNav,
                       sidebar |-> themeSidebar])
  /\ cacheFile' \in {cacheFile, Undef}
  /\ UNCHANGED <<paths, pluginOptions, cache, visitedCache, aliased, root,
                 pathIndex, partIndex, currentNode, structured, themeNav,
                 themeSidebar, pass, siteNav, spawned>>
  /\ UNCHANGED <<resolveVars, sortVars, keyVars, summaryVars, watcherVars, throttleVars>>

NextBuild ==
  \/ Config
  \/ Segment
  \/ GitClose
  \/ GitError
  \/ Generate
  \/ Rebuild

SpecBuild == InitBuild /\ [][NextBuild]_vars

----------------------------------------------------------------------------
(* Claims about the build pass *)

\* path at is path p or lies above it
IsPrefix(at, p) == Len(at) <= Len(p) /\ SubSeq(p, 1, Len(at)) = at

RECURSIVE TreePaths(_, _)
\* the paths of all items of a tree whose root list lies at path at
TreePaths(items, at) ==
  UNION {{Append(at, items[k].name)}
           \cup TreePaths(items[k].children, Append(at, items[k].name)) :
         k \in 1..Len(items)}

RECURSIVE SidebarLinks(_)
\* the links of all entries of a sidebar list, at every depth
SidebarLinks(entries) ==
  UNION {entries[k].link
           \cup (IF "items" \in DOMAIN entries[k]
                 THEN SidebarLinks(entries[k].items) ELSE {}) :
         k \in 1..Len(entries)}

\* the folders on the way to the files of paths
FoldersOf(list) ==
  UNION {{SubSeq(list[k], 1, n) : n \in 1..Len(list[k]) - 1} : k \in 1..Len(list)}

\* the folders among them that itemsSetting hides: the entry applied to the
\* folder says hide: true (a folder has no metadata of its own)
HiddenFolders ==
  {p \in FoldersOf(paths) :
     CustomOptions(pluginOptions.itemsSetting, pluginOptions.useArticleTitle,
                   p, p[Len(p)])["hide"] = Some(TRUE)}

\* nothing in the tree, the nav or the sidebar lies at or beneath folder
NothingBeneath(folder) ==
  /\ \A p \in TreePaths(root, <<>>) \cup TreePaths(structured, <<>>) :
       ~IsPrefix(folder, p)
  /\ IsDef(themeNav) =>
       \A k \in 1..Len(Val(themeNav)) :
         /\ ~IsPrefix(folder, Val(themeNav)[k].link)
         /\ ~IsPrefix(folder, Val(themeNav)[k].activeMatch)
  /\ IsDef(themeSidebar) =>
       \A route \in DOMAIN Val(themeSidebar) :
         /\ ~IsPrefix(folder, route)
         /\ \A link \in SidebarLinks(Val(themeSidebar)[route]) :
              ~IsPrefix(folder, link)

\* C7: a folder that itemsSetting hides never gets a node in the tree, nor
\* does any path beneath it, and once nav and sidebar are generated neither
\* holds an entry or link at or beneath it -- whatever the hide values of
\* its descendants are.
C7_HiddenFolderExcluded ==
  \A folder \in HiddenFolders : NothingBeneath(folder)

\* a/b is hidden by its path key; a/b/y.md, which says hide: false in its
\* frontmatter and in itemsSetting, was walked together with a visible file
C7_Witness ==
  /\ pc = "done"
  /\ <<"a", "b">> \in HiddenFolders
  /\ \E k \in 1..Len(paths) : paths[k] = <<"a", "b", "y.md">>
  /\ <<"a", "b">> \in visitedCache
  /\ FindKey(pluginOptions.itemsSetting, {<<"y.md">>}) # Undef
  /\ <<"a", "x.md">> \in TreePaths(structured, <<>>)


RECURSIVE SidebarGroups(_)
\* the entries of a sidebar list that stand for folders, at every depth
SidebarGroups(entries) ==
  UNION {IF "items" \in DOMAIN entries[k]
         THEN {entries[k]} \cup SidebarGroups(entries[k].items)
         ELSE {} :
         k \in 1..Len(entries)}

\* an item other than index.md
NotIndex(item) == item.name # "index.md"

\* the folders of the sorted tree that hold index.md and something else
IndexFolders ==
  {p \in TreePaths(structured, <<>>) :
     LET node == NodeAt(structured, p)
     IN  /\ node.isFolder
         /\ FindNode(node.children, "index.md") # Undef
         /\ Len(node.children) > 1}

\* entry is the folder's own sidebar entry: its link is the route of the
\* folder's index.md and its items are the other children, one each, in order
OwnEntry(entry, folder) ==
  LET others == SelectSeq(NodeAt(structured, folder).children, NotIndex)
  IN  /\ entry.link = Some(Append(folder, ""))
      /\ Len(entry.items) = Len(others)
      /\ \A k \in 1..Len(others) :
           /\ entry.items[k].text = SidebarText(others[k])
           /\ others[k].isFolder <=> "items" \in DOMAIN entry.items[k]
           /\ ~others[k].isFolder =>
                entry.items[k].link = Some(ReplaceMd(Append(folder, others[k].name)))

\* C8: with indexAsFolderLink on, every folder of the tree that holds
\* index.md together with other items has an own sidebar entry whose link is
\* index.md's route and whose items are exactly the other children.
C8_IndexFolded ==
  (pc = "done" /\ pluginOptions.indexAsFolderLink # Some(FALSE)) =>
    \A folder \in IndexFolders :
      \E route \in DOMAIN Val(themeSidebar) :
        \E entry \in SidebarGroups(Val(themeSidebar)[route]) :
          OwnEntry(entry, folder)

\* C9: when the second pass is over, its sorted tree, nav and sidebar are
\* those of the first pass.
C9_SecondPassIdentical ==
  (pc = "done" /\ pass = 2) =>
    firstRun = Some([data |-> structured, nav |-> themeNav,
                     sidebar |-> themeSidebar])

\* the second pass is over; a/x.md, whose history git printed in the first
\* pass, has its times again, and the folder above it their aggregate
C9_Witness ==
  /\ pc = "done"
  /\ pass = 2
  /\ <<"a", "x.md">> \in TreePaths(structured, <<>>)
  /\ NodeAt(structured, <<"a", "x.md">>).options["firstCommitTime"] = Some(7)
  /\ NodeAt(structured, <<"a">>).options["lastCommitTime"] = Some(3)
  /\ firstRun = Some([data |-> structured, nav |-> themeNav,
                      sidebar |-> themeSidebar])

----------------------------------------------------------------------------
(* Claims about path keys without extension *)

\* the path of a file with ".md" removed from its name
StrippedPath(p) == Append(SubSeq(p, 1, Len(p) - 1), StripMd(p[Len(p)]))

\* C11: a file d/f.md whose path without the extension, d/f, is a key of
\* itemsSetting (and whose full path is not) gets the options of the entry
\* declared under d/f.
C11_PathKeyWithoutExtension ==
  (/\ pc = "looked up"
   /\ Len(kPath) > 1
   /\ StrippedPath(kPath) # kPath
   /\ StrippedPath(kPath) \in DeclaredKeys
   /\ kPath \notin DeclaredKeys)
    => OptionsAreOf(EntryOf(StrippedPath(kPath)))

----------------------------------------------------------------------------
(* The build pass of a host that may configure its own nav: SpecHostNav    *)

\* a nav written by hand in the host's configuration
HostNav == << [text |-> "Guide", link |-> <<"guide", "">>] >>

\* the options SpecHostNav draws: those without itemsSetting
HostNavOptions == {o \in OptionsUniverse : o.itemsSetting = <<>>}

InitHostNav ==
  /\ pc = "config"
  /\ paths \in PathLists(MaxPaths)
  /\ pluginOptions \in HostNavOptions
  /\ siteNav \in {Undef, Some(<<>>), Some(HostNav)}
  /\ cacheFile = Undef
  /\ cache = <<>>
  /\ visitedCache = {}
  /\ aliased = {}
  /\ root = <<>>
  /\ pathIndex = 0
  /\ partIndex = 0
  /\ currentNode = <<>>
  /\ structured = <<>>
  /\ themeNav = Undef
  /\ themeSidebar = Undef
  /\ pass = 0
  /\ firstRun = Undef
  /\ spawned = {}
  /\ ResolveIdle
  /\ SortIdle
  /\ KeyIdle
  /\ OthersIdle

SpecHostNav == InitHostNav /\ [][NextBuild]_vars

\* C12: once the hook has read the host's configuration, themeConfig.nav is
\* the host's nav whenever the host defines one -- also an empty one, and
\* whatever the tree holds -- and when the pass is over and the host defines
\* none, it is the nav generated from the sorted tree.
C12_HostNavKept ==
  /\ (pass > 0 /\ pc # "config" /\ IsDef(siteNav)) => themeNav = siteNav
  /\ (pc = "done" /\ ~IsDef(siteNav)) => themeNav = Some(generateNav(structured))

\* the pass is over for a host whose nav is an empty list; the tree is not
\* empty, the sidebar was generated from it, and the nav is still empty
C12_Witness ==
  /\ pc = "done"
  /\ siteNav = Some(<<>>)
  /\ Len(structured) > 0
  /\ themeSidebar = Some(generateSidebar(structured, pluginOptions))
  /\ themeNav = Some(<<>>)

----------------------------------------------------------------------------
(* Claims about the generated nav and sidebar *)

RECURSIVE FirstLeaf(_, _)
\* the path of the item reached from item, which lies at path at, by going
\* to the first child as long as there is one
FirstLeaf(item, at) ==
  IF Len(item.children) = 0 THEN at
  ELSE FirstLeaf(item.children[1], Append(at, item.children[1].name))

\* C13: the link of every generated nav entry is the path, without
\* extension, of the file reached from the top-level item by descending into
\* first children; the item reached is a file, never a folder.
C13_NavLinksToFile ==
  (pc = "done" /\ ~IsDef(siteNav)) =>
    \A k \in 1..Len(structured) :
      LET leaf == FirstLeaf(structured[k], <<structured[k].name>>)
      IN  /\ ~NodeAt(structured, leaf).isFolder
          /\ Val(themeNav)[k].link = StrippedPath(leaf)


\* the text the claim gives the item at path at: the title override (prefixed
\* frontmatter key, frontmatter key, itemsSetting entry), else the heading
\* when the flag is on (frontmatter over the itemsSetting entry over the
\* global option) and the document has one, else the name without ".md"
ExpectedText(item, at) ==
  LET found == CustomInfoKey(pluginOptions.itemsSetting, at, item.name)
      entry == IF found = Undef THEN NoItemOptions
               ELSE pluginOptions.itemsSetting[Val(found)].value
      fm == item.frontmatter
      title == IF IsDef(fm["nav-title"]) THEN fm["nav-title"]
               ELSE IF IsDef(fm["title"]) THEN fm["title"]
               ELSE entry["title"]
      flag == IF IsDef(fm["nav-useArticleTitle"]) THEN fm["nav-useArticleTitle"]
              ELSE IF IsDef(fm["useArticleTitle"]) THEN fm["useArticleTitle"]
              ELSE IF IsDef(entry["useArticleTitle"]) THEN entry["useArticleTitle"]
              ELSE pluginOptions.useArticleTitle
  IN  IF IsDef(title) THEN Val(title)
      ELSE IF flag = Some(TRUE) /\ IsDef(fm["h1"]) THEN Val(fm["h1"])
      ELSE StripMd(item.name)

\* an item that generateSidebar gives an entry of its own
HasEntry(item) ==
  ~(pluginOptions.indexAsFolderLink # Some(FALSE) /\ StripMd(item.name) = "index")

RECURSIVE ExpectedTexts(_, _)
\* the texts the claim gives the entries for a sibling list at path at
ExpectedTexts(siblings, at) ==
  LET shown == SelectSeq(siblings, HasEntry)
  IN  [k \in 1..Len(shown) |->
         [text |-> ExpectedText(shown[k], Append(at, shown[k].name)),
          items |-> ExpectedTexts(shown[k].children, Append(at, shown[k].name))]]

RECURSIVE EntryTexts(_)
\* the texts of the entries of a sidebar list
EntryTexts(entries) ==
  [k \in 1..Len(entries) |->
     [text |-> entries[k].text,
      items |-> IF "items" \in DOMAIN entries[k]
                THEN EntryTexts(entries[k].items) ELSE <<>>]]

\* C14: every sidebar entry's text is the item's resolved title when one is
\* set, else the document's first-level heading when the resolved
\* useArticleTitle is true and there is a heading, else the name without .md.
C14_SidebarText ==
  pc = "done" =>
    \A k \in 1..Len(structured) :
      EntryTexts(Val(themeSidebar)[<<structured[k].name, "">>])
        = ExpectedTexts(structured[k].children, <<structured[k].name>>)

\* the sidebar of a holds x with its heading, switched on by x.md's own
\* frontmatter though the global option is off, next to folder b by its name
C14_Witness ==
  /\ pc = "done"
  /\ pluginOptions.useArticleTitle = Undef
  /\ <<"a", "">> \in DOMAIN Val(themeSidebar)
  /\ \E k, l \in 1..Len(Val(themeSidebar)[<<"a", "">>]) :
       /\ Val(themeSidebar)[<<"a", "">>][k].text = "H2"
       /\ Val(themeSidebar)[<<"a", "">>][l].text = "b"

----------------------------------------------------------------------------
(* Claims about timestamps *)

\* the files of the sorted tree that lie beneath folder
FilesBeneath(folder) ==
  {p \in TreePaths(structured, <<>>) :
     /\ IsPrefix(folder, p)
     /\ ~NodeAt(structured, p).isFolder}

\* the values an option takes on the files beneath folder
TimesBeneath(folder, key) ==
  UNION {NodeAt(structured, p).options[key] : p \in FilesBeneath(folder)}

\* C15: in the tree that is sorted, every folder's firstCommitTime is the
\* least firstCommitTime and its lastCommitTime the greatest lastCommitTime
\* of the files beneath it at any depth, and undefined when none has one.
C15_FolderCommitTimes ==
  pc = "done" =>
    \A folder \in {p \in TreePaths(structured, <<>>) : NodeAt(structured, p).isFolder} :
      LET firsts == TimesBeneath(folder, "firstCommitTime")
          lasts == TimesBeneath(folder, "lastCommitTime")
          options == NodeAt(structured, folder).options
      IN  /\ \A t \in options["firstCommitTime"] :
               t \in firsts /\ \A u \in firsts : t <= u
          /\ \A t \in options["lastCommitTime"] :
               t \in lasts /\ \A u \in lasts : t >= u
          /\ IsDef(options["firstCommitTime"]) <=> firsts # {}
          /\ IsDef(options["lastCommitTime"]) <=> lasts # {}

\* folder a holds x.md, folder a/b holds y.md, both with history; a/b was
\* walked first and a carries the times over both files
C15_Witness ==
  /\ pc = "done"
  /\ Len(paths) > 1
  /\ paths[1] = <<"a", "b", "y.md">>
  /\ {<<"a", "x.md">>, <<"a", "b", "y.md">>} \subseteq TreePaths(structured, <<>>)
  /\ NodeAt(structured, <<"a", "x.md">>).options["firstCommitTime"] = Some(7)
  /\ NodeAt(structured, <<"a", "b", "y.md">>).options["lastCommitTime"] = Some(2)
  /\ NodeAt(structured, <<"a", "b">>).options["firstCommitTime"] = Some(8)
  /\ NodeAt(structured, <<"a">>).options["firstCommitTime"] = Some(7)
  /\ NodeAt(structured, <<"a">>).options["lastCommitTime"] = Some(3)


\* the files whose git child has answered in this pass
Answered == spawned \ (IF pc = "git" THEN {CurrentPath} ELSE {})

\* the least and the greatest of the times of a history
Earliest(log) == CHOOSE t \in {log[k] : k \in 1..Len(log)} :
                   \A k \in 1..Len(log) : t <= log[k]

MostRecent(log) == CHOOSE t \in {log[k] : k \in 1..Len(log)} :
                     \A k \in 1..Len(log) : t >= log[k]

\* C16: a file whose git child printed its history has firstCommitTime equal
\* to the earliest entry and lastCommitTime equal to the most recent one, so
\* firstCommitTime <= lastCommitTime.
C16_CommitTimesOrdered ==
  \A p \in Answered :
    LET times == cache[p].options
    IN  IsDef(times["firstCommitTime"]) =>
          /\ times["firstCommitTime"] = Some(Earliest(GitLog(p)))
          /\ times["lastCommitTime"] = Some(MostRecent(GitLog(p)))
          /\ Val(times["firstCommitTime"]) <= Val(times["lastCommitTime"])


\* C17: a round for a path whose cache entry stores the modification time
\* the file system reports now spawns no git child, and the four times it
\* puts into the path's options are those of the cache entry.
C17_CacheHitNoQuery ==
  [][(/\ pc = "segment"
      /\ CurrentPath \in DOMAIN cache
      /\ cache[CurrentPath].options["modifyTime"] = Some(MtimeMs(CurrentPath)))
       => (/\ pc' # "git"
           /\ spawned' = spawned
           /\ \A k \in TimeKeys :
                cache'[CurrentPath].options[k] = cache[CurrentPath].options[k])]_vars

\* in the first pass c/b.md was answered from the cache file of an earlier
\* session: it has the history times stored there, which are not what git
\* would print now, and no git child was spawned for it
C17_Witness ==
  /\ pass = 1
  /\ <<"c", "b.md">> \in visitedCache
  /\ <<"c", "b.md">> \notin spawned
  /\ cache[<<"c", "b.md">>].options["firstCommitTime"] = Some(9)
  /\ GitLog(<<"c", "b.md">>) = <<6>>


-----------------------------------------------------------------------------
\* C18: when the git child raises an error instead of closing, the
\* timestamp query answers with the file's local creation and modification
\* times and no commit times, which is the very step a close without any
\* printed time takes, and the pass goes on to the next segment, the next
\* path or the generation of the navigation.
C18_GitErrorLocalTimes ==
  [][GitError =>
       (/\ cache'[CurrentPath].options["birthTime"]
             = Some(BirthtimeMs(CurrentPath))
        /\ cache'[CurrentPath].options["modifyTime"]
             = Some(MtimeMs(CurrentPath))
        /\ cache'[CurrentPath].options["firstCommitTime"] = Undef
        /\ cache'[CurrentPath].options["lastCommitTime"] = Undef
        /\ AddSegment(CloseTimes(CurrentPath, <<>>))
        /\ pc' \in {"segment", "generate"}
        /\ pc' = "segment"
             => <<pathIndex', partIndex'>> # <<pathIndex, partIndex>>)]_vars

\* a pass that was finished although a file with three commits and an
\* outdated cache entry holding commit times got no history from git
C18_Witness ==
  /\ pc = "done"
  /\ cacheFile # Undef
  /\ <<"a", "x.md">> \in spawned
  /\ Len(GitLog(<<"a", "x.md">>)) > 0
  /\ EarlierCache[<<"a", "x.md">>].options["firstCommitTime"] # Undef
  /\ cache[<<"a", "x.md">>].options["firstCommitTime"] = Undef
  /\ cache[<<"a", "x.md">>].options["birthTime"]
       = Some(BirthtimeMs(<<"a", "x.md">>))
  /\ themeSidebar # Undef


-----------------------------------------------------------------------------
(* The pass and the git child.  The hook's own steps are continuations of  *)
(* awaited promises, which the event loop runs whenever they are ready;    *)
(* the close and error events are the child's, and nothing in getTimestamp *)
(* raises either of them for a child that stays silent.                    *)

\* the plugin created without any option
InitQuery ==
  /\ InitBuild
  /\ pluginOptions.itemsSetting = <<>>
  /\ pluginOptions.useArticleTitle = Undef
  /\ pluginOptions.indexAsFolderLink = Undef

SpecQuery ==
  /\ InitQuery
  /\ [][NextBuild]_vars
  /\ WF_vars(Config)
  /\ WF_vars(Segment)
  /\ WF_vars(Generate)

\* C19: as claimed, whatever the git child does, a timestamp query that
\* has spawned it eventually has its answer, and a pass that was entered
\* eventually finishes.
C19_PassFinishes ==
  /\ (pc = "git") ~> (pc # "git")
  /\ (pc = "config") ~> (pc = "done")


-----------------------------------------------------------------------------
\* C20, as claimed: a pass entered while the cache file is missing or does
\* not parse runs with an empty cache, holding no entry of an earlier pass
\* of the same process.
C20_ColdStartAsClaimed ==
  [][(pc = "config" /\ cacheFile = Undef) => cache' = <<>>]_vars

\* C20, amended: a pass entered while the cache file is missing or does not
\* parse runs with the cache the process holds in memory, unchanged: no
\* entry in the first pass of the process, and in a later pass the entries
\* the pass before it kept, which the timestamp queries of the pass then
\* consult.
C20_MemoryCacheKept ==
  [][(pc = "config" /\ cacheFile = Undef) =>
       (/\ cache' = cache
        /\ pass = 0 => cache' = <<>>
        /\ pass > 0 => DOMAIN cache' = visitedCache)]_vars

\* the second pass, entered after the cache file was lost, has answered the
\* query for a file with commits from the entry the first pass stored, and
\* no git child was spawned for it
C20_Witness ==
  /\ pass = 2
  /\ cacheFile = Undef
  /\ <<"a", "x.md">> \in visitedCache
  /\ <<"a", "x.md">> \notin spawned
  /\ Len(GitLog(<<"a", "x.md">>)) > 0
  /\ cache[<<"a", "x.md">>].options["modifyTime"]
       = Some(MtimeMs(<<"a", "x.md">>))


-----------------------------------------------------------------------------
RECURSIVE UniqueNames(_)
\* no two items of one sibling list of the tree have the same name
UniqueNames(items) ==
  /\ \A k, l \in 1..Len(items) : items[k].name = items[l].name => k = l
  /\ \A k \in 1..Len(items) : UniqueNames(items[k].children)

\* C23: after every step of serializationPaths, and in the sorted tree, no
\* two items of the same sibling list have the same name: a path that runs
\* through a segment already present at its position reuses that node.
C23_SiblingNamesUnique ==
  /\ UniqueNames(root)
  /\ UniqueNames(structured)

\* the second and the third path ran through folder a, which the first path
\* had created, and a holds the nodes of all three
C23_Witness ==
  /\ pc = "generate"
  /\ Len(paths) = 3
  /\ \A k \in 1..3 : paths[k][1] = "a"
  /\ Len(root) = 1
  /\ Len(root[1].children) >= 2


-----------------------------------------------------------------------------
RECURSIVE FilesAreLeaves(_)
\* every item that is not a folder has no children
FilesAreLeaves(items) ==
  \A k \in 1..Len(items) :
    /\ ~items[k].isFolder => items[k].children = <<>>
    /\ FilesAreLeaves(items[k].children)

-----------------------------------------------------------------------------
RECURSIVE Nodes(_, _)
\* the nodes of a tree: each with its path, which names it and its parent,
\* and its isFolder flag
Nodes(items, at) ==
  UNION {{[path |-> Append(at, items[k].name), isFolder |-> items[k].isFolder]}
           \cup Nodes(items[k].children, Append(at, items[k].name)) :
         k \in 1..Len(items)}

RECURSIVE CountNodes(_)
CountNodes(items) ==
  IF items = <<>> THEN 0
  ELSE 1 + CountNodes(Head(items).children) + CountNodes(Tail(items))

\* the segment at path p is hidden by its document or by the options
HiddenOnDisk(p) ==
  LET custom == CustomOptions(pluginOptions.itemsSetting,
                              pluginOptions.useArticleTitle, p, p[Len(p)])
  IN  SkipSegment(IF IsDirectory(p) THEN EmptyFrontmatter ELSE FileData(p),
                  [k \in OptionKeys |->
                     IF k \in TimeKeys THEN StatTimes(p)[k] ELSE custom[k]])

\* the nodes a set of paths stands for, whatever the order of the paths: the
\* segments of each path down to the first hidden one
ShapeOf(pathSet) ==
  UNION {{[path |-> SubSeq(p, 1, n), isFolder |-> IsDirectory(SubSeq(p, 1, n))] :
            n \in {l \in 1..Len(p) :
                     \A m \in 1..l : ~HiddenOnDisk(SubSeq(p, 1, m))}} :
         p \in pathSet}

\* C25: the tree serializationPaths returns has, for every order of the
\* path list, the nodes the set of the paths stands for, each once with its
\* name, isFolder flag and parent: the order decides positions only.
C25_ShapeOrderFree ==
  pc \in {"generate", "done"} =>
    /\ Nodes(root, <<>>) = ShapeOf({paths[k] : k \in 1..Len(paths)})
    /\ CountNodes(root) =
         Cardinality(ShapeOf({paths[k] : k \in 1..Len(paths)}))

\* folder a was entered, left for folder c and entered again: its nodes
\* stand in the order of their first appearance, b before x.md
C25_Witness ==
  /\ pc = "generate"
  /\ paths = << <<"a", "b", "x.md">>, <<"c", "b.md">>, <<"a", "x.md">> >>
  /\ Len(root) = 2
  /\ Len(root[1].children) = 2
  /\ root[1].children[1].name = "b"
  /\ root[1].children[2].name = "x.md"


-----------------------------------------------------------------------------
\* the paths whose segment a pass over the paths processes: each path down
\* to its first hidden segment, that segment included
Processed(pathSet) ==
  UNION {{SubSeq(p, 1, n) :
            n \in {l \in 1..Len(p) :
                     \A m \in 1..(l - 1) : ~HiddenOnDisk(SubSeq(p, 1, m))}} :
         p \in pathSet}

\* C30: when a pass has ended, the keys of the cache it persisted are
\* exactly the paths it visited, which are the segments it processed,
\* hidden ones included: entries of other paths are gone, none of a visited
\* path is.
C30_CacheKeysAreVisited ==
  pc = "done" =>
    /\ cacheFile # Undef
    /\ DOMAIN Val(cacheFile) = visitedCache
    /\ DOMAIN cache = visitedCache
    /\ visitedCache = Processed({paths[k] : k \in 1..Len(paths)})

\* the pass found the cache file of an earlier session (the commit time 9
\* comes from it), visited c/b.md, which the options hide, and kept its
\* entry, while the entries of old.md and a/x.md, not visited, are gone
C30_Witness ==
  /\ pc = "done"
  /\ cacheFile # Undef
  /\ HiddenOnDisk(<<"c", "b.md">>)
  /\ <<"c", "b.md">> \notin TreePaths(structured, <<>>)
  /\ <<"c", "b.md">> \in DOMAIN Val(cacheFile)
  /\ Val(cacheFile)[<<"c", "b.md">>].options["firstCommitTime"] = Some(9)
  /\ DOMAIN EarlierCache \cap DOMAIN Val(cacheFile) = {<<"c", "b.md">>}


-----------------------------------------------------------------------------
(* The build pass over a directory with a folder named index: SpecSidebar  *)

\* the lists of at most n distinct files of that directory, in every order
IndexFolderLists(n) ==
  UNION {{s \in [1..m -> IndexFolderUniverse] :
            \A k, l \in 1..m : k # l => s[k] # s[l]} : m \in 0..n}

\* the options SpecSidebar draws: none, or indexAsFolderLink switched off
SidebarOptions ==
  { [itemsSetting |-> <<>>, useArticleTitle |-> Undef,
     indexAsFolderLink |-> Undef],
    [itemsSetting |-> <<>>, useArticleTitle |-> Undef,
     indexAsFolderLink |-> Some(FALSE)] }

InitSidebar ==
  /\ pc = "config"
  /\ paths \in IndexFolderLists(MaxPaths)
  /\ pluginOptions \in SidebarOptions
  /\ siteNav = Undef
  /\ cacheFile = Undef
  /\ cache = <<>>
  /\ visitedCache = {}
  /\ aliased = {}
  /\ root = <<>>
  /\ pathIndex = 0
  /\ partIndex = 0
  /\ currentNode = <<>>
  /\ structured = <<>>
  /\ themeNav = Undef
  /\ themeSidebar = Undef
  /\ pass = 0
  /\ firstRun = Undef
  /\ spawned = {}
  /\ ResolveIdle
  /\ SortIdle
  /\ KeyIdle
  /\ OthersIdle

SpecSidebar == InitSidebar /\ [][NextBuild]_vars

RECURSIVE LinkCount(_, _)
\* the number of file entries of a sidebar list, at every depth, whose link
\* is link
LinkCount(entries, link) ==
  IF entries = <<>> THEN 0
  ELSE LET entry == Head(entries)
       IN  (IF "items" \in DOMAIN entry THEN LinkCount(entry.items, link)
            ELSE IF entry.link = Some(link) THEN 1 ELSE 0)
           + LinkCount(Tail(entries), link)

\* the files of the sorted tree below a top-level folder that are not named
\* index
ListedFiles ==
  {f \in TreePaths(structured, <<>>) :
     /\ Len(f) >= 2
     /\ ~NodeAt(structured, f).isFolder
     /\ StripMd(f[Len(f)]) # "index"}

\* C28: when the pass is over, every file of the tree below a top-level
\* folder whose name without extension is not index has exactly one file
\* entry in the sidebar, its link being its path without the extension, and
\* that entry lies in the group of its top-level folder.
C28_EveryFileListed ==
  pc = "done" =>
    \A f \in ListedFiles :
      LET link == [f EXCEPT ![Len(f)] = StripMd(f[Len(f)])]
      IN  \A route \in DOMAIN Val(themeSidebar) :
            LinkCount(Val(themeSidebar)[route], link)
              = IF route = <<f[1], "">> THEN 1 ELSE 0


-----------------------------------------------------------------------------
(* parseSummary: the outline of SUMMARY.md becomes sidebar and nav.        *)
(* SpecSummary draws the lines of the file and runs the loop over them,    *)
(* one line a step.  A node is named by the position of its line, which    *)
(* also stands for its text and its link; the items array of a node is the *)
(* sequence of the nodes pushed to it.  A depth is a fraction num / den:   *)
(* a heading of level n has depth -n, a list item the length of its        *)
(* indentation divided by the length of the first indentation seen.        *)

\* the heading levels and the indentation lengths of the lines drawn
HeadingLevels == {1, 2, 3}

IndentLengths == {0, 1, 2}

\* a line: a heading the heading pattern accepts, a list item the item
\* pattern accepts, or a line that leaves no trace (it starts with neither
\* mark, or its pattern does not match and the loop continues)
LineUniverse ==
  {[kind |-> "heading", level |-> n, spaces |-> 0] : n \in HeadingLevels}
    \cup {[kind |-> "item", level |-> 0, spaces |-> n] : n \in IndentLengths}
    \cup {[kind |-> "other", level |-> 0, spaces |-> 0]}

\* the files of at most n lines that are not blank
SummaryFiles(n) == UNION {[1..m -> LineUniverse] : m \in 0..n}

\* a.depth >= b.depth and a.depth <= b.depth, for fractions
DepthGeq(a, b) == a.num * b.den >= b.num * a.den

DepthLeq(a, b) == a.num * b.den <= b.num * a.den

\* mutant: a heading closes only the headings of a deeper level
HeadingPops_deeperOnly(open, depth) ==
  \/ open.num >= 0
  \/ (DepthLeq(open, depth) /\ ~DepthGeq(open, depth))

\* lastItem.depth >= 0 || lastItem.depth <= depth
HeadingPops(open, depth) ==
  \/ open.num >= 0
  \/ DepthLeq(open, depth)

RECURSIVE PopForHeading(_, _)
\* while (lastItem && (...)) { stack.pop(); lastItem = stack[stack.length - 1] }
PopForHeading(open, depth) ==
  IF open # <<>> /\ HeadingPops(open[Len(open)].depth, depth)
  THEN PopForHeading(SubSeq(open, 1, Len(open) - 1), depth)
  ELSE open

RECURSIVE PopForItem(_, _)
\* while (lastItem && lastItem.depth >= depth) { stack.pop(); ... }
PopForItem(open, depth) ==
  IF open # <<>> /\ DepthGeq(open[Len(open)].depth, depth)
  THEN PopForItem(SubSeq(open, 1, Len(open) - 1), depth)
  ELSE open

\* node.items.push(child), for a node that has an items array
PushItem(node, child) ==
  [n \in DOMAIN sidebarItems \cup {child} |->
     IF n = child THEN <<>>
     ELSE IF n = node THEN Append(sidebarItems[n], child)
     ELSE sidebarItems[n]]

InitSummary ==
  /\ pc = "summary"
  /\ lines \in SummaryFiles(MaxLines)
  /\ lineIndex = 1
  /\ stack = <<>>
  /\ sidebarItems = (0 :> <<>>)
  /\ summaryNav = <<>>
  /\ indent = Undef
  /\ ResolveIdle
  /\ SortIdle
  /\ KeyIdle
  /\ BuildIdle
  /\ WatcherIdle
  /\ ThrottleIdle

\* a heading line
Heading ==
  /\ pc = "summary"
  /\ lineIndex <= Len(lines)
  /\ lines[lineIndex].kind = "heading"
  /\ LET depth == [num |-> 0 - lines[lineIndex].level, den |-> 1]
         open == PopForHeading(stack, depth)
     IN  IF lines[lineIndex].level = 1
         THEN /\ sidebarItems' = PushItem(0, lineIndex)
              /\ stack' = Append(stack, [depth |-> depth, node |-> lineIndex])
              /\ summaryNav' = Append(summaryNav,
                                      [text |-> lineIndex, link |-> Undef])
         ELSE /\ summaryNav' = summaryNav
              /\ IF open # <<>>
                 THEN /\ sidebarItems' = PushItem(open[Len(open)].node, lineIndex)
                      /\ stack' = Append(open, [depth |-> depth, node |-> lineIndex])
                 ELSE /\ sidebarItems' = sidebarItems
                      /\ stack' = open
  /\ lineIndex' = lineIndex + 1
  /\ UNCHANGED <<pc, lines, indent>>
  /\ UNCHANGED <<resolveVars, sortVars, keyVars, buildVars, watcherVars,
                 throttleVars>>

\* a list item line
ListItem ==
  /\ pc = "summary"
  /\ lineIndex <= Len(lines)
  /\ lines[lineIndex].kind = "item"
  /\ LET spaces == lines[lineIndex].spaces
         unit == IF indent = Undef /\ spaces > 0 THEN Some(spaces) ELSE indent
         depth == IF spaces > 0 THEN [num |-> spaces, den |-> Val(unit)]
                  ELSE [num |-> 0, den |-> 1]
         open == PopForItem(stack, depth)
     IN  /\ indent' = unit
         /\ IF open # <<>>
            THEN /\ sidebarItems' = PushItem(open[Len(open)].node, lineIndex)
                 /\ stack' = Append(open, [depth |-> depth, node |-> lineIndex])
                 /\ summaryNav' =
                      IF summaryNav # <<>>
                         /\ summaryNav[Len(summaryNav)].link = Undef
                      THEN [summaryNav EXCEPT
                              ![Len(summaryNav)].link = Some(lineIndex)]
                      ELSE summaryNav
            ELSE /\ sidebarItems' = sidebarItems
                 /\ stack' = open
                 /\ summaryNav' = summaryNav
  /\ lineIndex' = lineIndex + 1
  /\ UNCHANGED <<pc, lines>>
  /\ UNCHANGED <<resolveVars, sortVars, keyVars, buildVars, watcherVars,
                 throttleVars>>

\* a line of neither kind, or one its pattern rejects: continue
Skip ==
  /\ pc = "summary"
  /\ lineIndex <= Len(lines)
  /\ lines[lineIndex].kind = "other"
  /\ lineIndex' = lineIndex + 1
  /\ UNCHANGED <<pc, lines, stack, sidebarItems, summaryNav, indent>>
  /\ UNCHANGED <<resolveVars, sortVars, keyVars, buildVars, watcherVars,
                 throttleVars>>

\* return { sidebar, nav }
Return ==
  /\ pc = "summary"
  /\ lineIndex > Len(lines)
  /\ pc' = "returned"
  /\ UNCHANGED <<summaryVars, resolveVars, sortVars, keyVars, buildVars,
                 watcherVars, throttleVars>>

NextSummary ==
  \/ Heading
  \/ ListItem
  \/ Skip
  \/ Return

SpecSummary == InitSummary /\ [][NextSummary]_vars


-----------------------------------------------------------------------------
(* Claims about parseSummary *)

\* line k is a heading or a list item its pattern accepts
Accepted(k) == lines[k].kind # "other"

\* line j is strictly shallower than line k: a heading of a lower level for
\* a heading, any heading or a list item of less indentation for a list item
Shallower(j, k) ==
  IF lines[k].kind = "heading"
  THEN lines[j].kind = "heading" /\ lines[j].level < lines[k].level
  ELSE \/ lines[j].kind = "heading"
       \/ (lines[j].kind = "item" /\ lines[j].spaces < lines[k].spaces)

RECURSIVE IsNode(_)
\* line k makes a node of the outline: a level-1 heading, or an accepted
\* line that a strictly shallower node precedes
IsNode(k) ==
  /\ Accepted(k)
  /\ \/ (lines[k].kind = "heading" /\ lines[k].level = 1)
     \/ \E j \in 1..(k - 1) : Shallower(j, k) /\ IsNode(j)

\* the nearest node before line k that is strictly shallower
NearestShallower(k) ==
  LET open == {j \in 1..(k - 1) : Shallower(j, k) /\ IsNode(j)}
  IN  CHOOSE j \in open : \A l \in open : l <= j

\* how often node k stands in the items of node n
TimesIn(n, k) ==
  IF n \in DOMAIN sidebarItems
  THEN Cardinality({p \in 1..Len(sidebarItems[n]) : sidebarItems[n][p] = k})
  ELSE 0

RECURSIVE TimesInAll(_, _)
\* how often node k stands in the items of the nodes of set ns
TimesInAll(ns, k) ==
  IF ns = {} THEN 0
  ELSE LET n == CHOOSE m \in ns : TRUE
       IN  TimesIn(n, k) + TimesInAll(ns \ {n}, k)

\* how often node k stands in the sidebar, at any depth
Occurrences(k) == TimesInAll(DOMAIN sidebarItems, k)

\* C22: when parseSummary returns, every level-1 heading is one top-level
\* group of the sidebar and one nav entry, every other accepted line that a
\* strictly shallower node precedes stands once, in the items of the
\* nearest such node, and every items list is in document order.
C22_OutlineNesting ==
  pc = "returned" =>
    /\ \A k \in 1..Len(lines) :
         Accepted(k) =>
           IF lines[k].kind = "heading" /\ lines[k].level = 1
           THEN /\ TimesIn(0, k) = 1
                /\ Occurrences(k) = 1
                /\ Cardinality({p \in 1..Len(summaryNav) :
                                  summaryNav[p].text = k}) = 1
           ELSE IsNode(k) =>
                  /\ TimesIn(NearestShallower(k), k) = 1
                  /\ Occurrences(k) = 1
    /\ Len(summaryNav) = Len(sidebarItems[0])
    /\ \A n \in DOMAIN sidebarItems :
         \A p, q \in 1..Len(sidebarItems[n]) :
           p < q => sidebarItems[n][p] < sidebarItems[n][q]

\* a file of four lines: a level-1 heading, a level-2 heading, a second
\* level-2 heading and an indented list item; the second level-2 heading is
\* a sibling of the first, and the list item lies under it
C22_Witness ==
  /\ pc = "returned"
  /\ Len(lines) = 4
  /\ lines[1] = [kind |-> "heading", level |-> 1, spaces |-> 0]
  /\ lines[2] = [kind |-> "heading", level |-> 2, spaces |-> 0]
  /\ lines[3] = [kind |-> "heading", level |-> 2, spaces |-> 0]
  /\ lines[4] = [kind |-> "item", level |-> 0, spaces |-> 1]
  /\ sidebarItems[0] = <<1>>
  /\ sidebarItems[1] = <<2, 3>>
  /\ sidebarItems[3] = <<4>>

\* C29: when parseSummary returns, every list item line the item pattern
\* accepts stands exactly once in the sidebar, whatever precedes it.
C29_EveryItemListed ==
  pc = "returned" =>
    \A k \in 1..Len(lines) :
      lines[k].kind = "item" => Occurrences(k) = 1


-----------------------------------------------------------------------------
(* mdWatcher: a watcher event either touches the config file (forceReload) *)
(* or is ignored.  A frontmatter is a function from its keys to values; a  *)
(* value is [type, v], v standing for the content.  matter() builds a new  *)
(* array for every array it parses, and data.h1 is always assigned, with   *)
(* the value undefined when the text has no first-level heading.           *)

UndefinedValue == [type |-> "undefined", v |-> 0]

\* the frontmatter, with h1, a document of the model can hold: sort absent
\* or a number, tags absent or an array, h1 undefined or a string
DataUniverse ==
  UNION {{d \in [ks \cup {"h1"} ->
                   {UndefinedValue, [type |-> "string", v |-> 1],
                    [type |-> "number", v |-> 1], [type |-> "number", v |-> 2],
                    [type |-> "array", v |-> 1], [type |-> "array", v |-> 2]}] :
            /\ d["h1"].type \in {"undefined", "string"}
            /\ "sort" \in ks => d["sort"].type = "number"
            /\ "tags" \in ks => d["tags"].type = "array"} :
         ks \in SUBSET {"sort", "tags"}}

\* JSON.parse(JSON.stringify(frontmatter)): a property whose value is
\* undefined is not written
JsonRoundTrip(frontmatter) ==
  [key \in {k \in DOMAIN frontmatter : frontmatter[k].type # "undefined"} |->
     frontmatter[key]]

\* frontmatter[key]
Property(frontmatter, key) ==
  IF key \in DOMAIN frontmatter THEN frontmatter[key] ELSE UndefinedValue

\* a === b, b being a value parsed just now: an array is a new object and
\* is identical to no other value
StrictEquals(a, b) == a = b /\ b.type # "array"

\* mdWatcher(configPath, event, path): whether forceReload is called
mdWatcher(event, path, cached, data) ==
  IF path # "md" THEN FALSE
  ELSE IF event = "change" /\ IsDef(cached)
  THEN \/ Cardinality(DOMAIN data) # Cardinality(DOMAIN Val(cached))
       \/ \E key \in DOMAIN data :
            ~StrictEquals(Property(Val(cached), key), data[key])
  ELSE TRUE

\* the frontmatter a cache entry can hold: what getArticleData returned in
\* this process, or what the cache file gave back
CacheUniverse ==
  {Undef} \cup {Some(d) : d \in DataUniverse}
          \cup {Some(JsonRoundTrip(d)) : d \in DataUniverse}

InitWatcher ==
  /\ pc = "watch"
  /\ wEvent \in {"add", "change", "unlink"}
  /\ wPath \in {"md", "other"}
  /\ wCache \in CacheUniverse
  /\ wData \in DataUniverse
  /\ wReloaded = Undef
  /\ ResolveIdle
  /\ SortIdle
  /\ KeyIdle
  /\ BuildIdle
  /\ SummaryIdle
  /\ ThrottleIdle

\* the watcher's listener runs for the event
MdWatcher ==
  /\ pc = "watch"
  /\ wReloaded' = Some(mdWatcher(wEvent, wPath, wCache, wData))
  /\ pc' = "watched"
  /\ UNCHANGED <<wEvent, wPath, wCache, wData>>
  /\ UNCHANGED <<resolveVars, sortVars, keyVars, buildVars, summaryVars,
                 throttleVars>>

NextWatcher == MdWatcher

SpecWatcher == InitWatcher /\ [][NextWatcher]_vars

\* C27: on a change event for an .md file that has a cache entry,
\* forceReload is called if and only if the frontmatter the file holds now,
\* h1 included, differs from the cached one in its keys or in the value of
\* some key.
C27_ReloadIffChanged ==
  (/\ pc = "watched"
   /\ wEvent = "change"
   /\ wPath = "md"
   /\ IsDef(wCache))
    => (wReloaded = Some(TRUE) <=> wData # Val(wCache))


-----------------------------------------------------------------------------
(* throttle(mdWatcher.bind(null, $configPath), 1500) as the listener of    *)
(* watcher.on("all").  Time is the clock Date.now() reads, in ticks; the   *)
(* process has been started long after time 0, so the clock starts at      *)
(* delay.  A timer is run at its due time or later, whenever the event     *)
(* loop gets to it, and a watcher event can be delivered before it.        *)

\* the last tick of the clock
Horizon == 4 * delay

\* the frontmatter of a document with a heading and nothing else
HeadingOnly == [k \in {"h1"} |-> [type |-> "string", v |-> 1]]

\* the events the watcher delivers: a new .md file, a change of a file that
\* is not an .md file, and an .md file saved with its frontmatter and
\* heading as cached
ThrottleEvents ==
  { [event |-> "add", path |-> "md", cached |-> Undef, data |-> HeadingOnly],
    [event |-> "change", path |-> "other", cached |-> Undef,
     data |-> HeadingOnly],
    [event |-> "change", path |-> "md", cached |-> Some(HeadingOnly),
     data |-> HeadingOnly] }

\* func.apply(this, args): whether this call of mdWatcher calls forceReload
FuncReloads(e) == mdWatcher(e.event, e.path, e.cached, e.data)

\* the event is one the plugin is to refresh for: an .md file added or
\* removed, or changed in its frontmatter or heading
AsksForRefresh(e) ==
  /\ e.path = "md"
  /\ \/ e.event \in {"add", "unlink"}
     \/ (e.event = "change" /\ e.cached # Some(e.data))

InitThrottle ==
  /\ pc = "listening"
  /\ now = delay
  /\ lastExecTime = 0
  /\ timeoutId = Undef
  /\ calls = <<>>
  /\ arrived = 0
  /\ awaiting = FALSE
  /\ ResolveIdle
  /\ SortIdle
  /\ KeyIdle
  /\ BuildIdle
  /\ SummaryIdle
  /\ WatcherIdle

\* the function throttle returned is called with a watcher event
WatcherEvent ==
  /\ pc = "listening"
  /\ arrived < MaxEvents
  /\ now + delay <= Horizon
  /\ \E e \in ThrottleEvents :
       LET currentTime == now
           timeSinceLastExec == currentTime - lastExecTime
       IN  IF timeSinceLastExec >= delay
           THEN /\ calls' = Append(calls, now)
                /\ lastExecTime' = currentTime
                /\ timeoutId' = timeoutId
                /\ awaiting' = ((awaiting \/ AsksForRefresh(e)) /\ ~FuncReloads(e))
           ELSE /\ timeoutId' = Some([due |-> now + (delay - timeSinceLastExec),
                                      event |-> e])
                /\ awaiting' = (awaiting \/ AsksForRefresh(e))
                /\ UNCHANGED <<calls, lastExecTime>>
  /\ arrived' = arrived + 1
  /\ UNCHANGED <<pc, now>>
  /\ UNCHANGED <<resolveVars, sortVars, keyVars, buildVars, summaryVars,
                 watcherVars>>

\* the callback of setTimeout runs
TimerFires ==
  /\ pc = "listening"
  /\ IsDef(timeoutId)
  /\ now >= Val(timeoutId).due
  /\ calls' = Append(calls, now)
  /\ lastExecTime' = now
  /\ timeoutId' = Undef
  /\ awaiting' = (awaiting /\ ~FuncReloads(Val(timeoutId).event))
  /\ UNCHANGED <<pc, now, arrived>>
  /\ UNCHANGED <<resolveVars, sortVars, keyVars, buildVars, summaryVars,
                 watcherVars>>

\* time passes
Tick ==
  /\ pc = "listening"
  /\ now < Horizon
  /\ now' = now + 1
  /\ UNCHANGED <<pc, lastExecTime, timeoutId, calls, arrived, awaiting>>
  /\ UNCHANGED <<resolveVars, sortVars, keyVars, buildVars, summaryVars,
                 watcherVars>>

NextThrottle ==
  \/ WatcherEvent
  \/ TimerFires
  \/ Tick

\* time passes and a timer that is due is run in the end; whether further
\* events arrive is up to the files
SpecThrottle ==
  /\ InitThrottle
  /\ [][NextThrottle]_vars
  /\ WF_vars(Tick)
  /\ WF_vars(TimerFires)

\* C21: once an add or unlink event on an .md file has arrived, forceReload
\* is eventually called, also when further watcher events arrive within the
\* same throttle window.
C21_RefreshFollows == awaiting ~> ~awaiting

\* C26: the throttled function never calls func twice less than delay apart.
C26_CallsDelayApart ==
  \A k \in 1..(Len(calls) - 1) : calls[k + 1] - calls[k] >= delay

====
